---- MODULE Spec2Model ----
(***************************************************************************)
(* Model of the personal-finance application: the store client             *)
(* (src/lib/database.ts), the budget evaluator, the BudgetManager          *)
(* component, the TransactionList filter and the DashboardSummary totals.  *)
(*                                                                         *)
(* Conventions                                                             *)
(*   - amounts and limits are integers (a count of the smallest currency   *)
(*     unit), so sums are exact;                                           *)
(*   - a calendar date "YYYY-MM-DD" is the integer YYYY*10000+MM*100+DD    *)
(*     and a month key "YYYY-MM" is YYYY*100+MM: the order of the integers *)
(*     is the lexicographic order of the strings the store compares;       *)
(*   - a JavaScript Date is its time value in minutes since the model      *)
(*     epoch (EpochYear-01-01T00:00Z); the viewer's timezone is a fixed    *)
(*     offset tz in minutes east of UTC (getTimezoneOffset() = -tz);       *)
(*   - a text is a sequence of one-character strings.                      *)
(***************************************************************************)
EXTENDS Integers, Sequences, FiniteSets, TLC

VARIABLES
    budgets,        \* the budgets table: a set of rows
    nextId,         \* the next primary key the budgets table hands out
    transactions,   \* the transactions table: a sequence of rows
    tz,             \* the viewer's timezone offset, minutes east of UTC
    apiOut,         \* the last read the client made of the store, and its outcome
    lookupFailed,   \* some createOrUpdateBudget lookup failed for another reason than 'no row'
    overlapped,     \* some createOrUpdateBudget call started while another was in flight
    bm,             \* the BudgetManager instances' state, and the save each has in flight
    list,           \* the TransactionList component's state
    summary,        \* the DashboardSummary component's state
    chart,          \* the chart component under study: its props, state and computed data
    picker,         \* the page's date range and the DateRangePicker's state
    search,         \* the SearchBar's text, its pending timer and the onSearch calls
    form            \* the transaction form and edit dialog: the last submission and its outcome

vars == <<budgets, nextId, transactions, tz, apiOut, lookupFailed, overlapped, bm, list, summary, chart, picker, search, form>>

(***************************************************************************)
(* Bounds of the model.                                                    *)
(***************************************************************************)
MaxTx == 2          \* rows in the transactions table
MaxAmount == 3      \* largest amount of one transaction
MaxLimit == 5       \* largest monthly_limit
MaxInserts == 2     \* budget rows inserted before the last save starts
MaxSaveLimit == 2   \* largest monthly_limit typed into the budget form
MaxInFlight == 2    \* fetches of one chart in flight at a time
MaxRefs == 2        \* arrays told apart as tagFilters of a TransactionList
MaxDeletes == 2     \* deletes asked of one TransactionList

EpochYear == 2023   \* the year the day numbers count from
FirstYear == 2000   \* the year of the 'All Time' preset, the earliest the arithmetic covers
Users == {"u1", "u2"}
TxTypes == {"expense", "income", "investment"}
MonthKeys == {202312, 202402, 202403}
TZOffsets == {-300, 0, 330}     \* UTC-5, UTC, UTC+5:30

Max(a, b) == IF a >= b THEN a ELSE b
Min(a, b) == IF a <= b THEN a ELSE b

RECURSIVE SumSeq(_)
SumSeq(s) == IF s = <<>> THEN 0 ELSE Head(s) + SumSeq(Tail(s))

(***************************************************************************)
(* Calendar arithmetic behind Date.                                        *)
(***************************************************************************)
IsLeap(y) == (y % 4 = 0 /\ y % 100 # 0) \/ y % 400 = 0

DaysInMonth(y, m) ==
    IF m = 2 THEN (IF IsLeap(y) THEN 29 ELSE 28)
    ELSE IF m \in {4, 6, 9, 11} THEN 30 ELSE 31

RECURSIVE DaysBeforeYear(_)
DaysBeforeYear(y) ==
    IF y = EpochYear THEN 0
    ELSE IF y > EpochYear
         THEN DaysBeforeYear(y - 1) + (IF IsLeap(y - 1) THEN 366 ELSE 365)
         ELSE DaysBeforeYear(y + 1) - (IF IsLeap(y) THEN 366 ELSE 365)

RECURSIVE DaysBeforeMonth(_, _)
DaysBeforeMonth(y, m) ==
    IF m <= 1 THEN 0 ELSE DaysBeforeMonth(y, m - 1) + DaysInMonth(y, m - 1)

\* ECMAScript MakeDay(year, month, date): month is 0-based and may be 12 or
\* more, date may be 0 or exceed the month's length; the result is a day number.
MakeDay(y, m0, dt) ==
    LET yy == y + (m0 \div 12)
        mm == (m0 % 12) + 1
    IN  DaysBeforeYear(yy) + DaysBeforeMonth(yy, mm) + dt - 1

YearOfDay(n) ==
    CHOOSE y \in (IF n >= 0 THEN EpochYear..(EpochYear + 3) ELSE FirstYear..(EpochYear - 1)) :
        DaysBeforeYear(y) <= n /\ n < DaysBeforeYear(y + 1)

MonthOfDay(n) ==
    LET y == YearOfDay(n)
        k == n - DaysBeforeYear(y)
    IN  CHOOSE m \in 1..12 :
            DaysBeforeMonth(y, m) <= k /\ k < DaysBeforeMonth(y, m) + DaysInMonth(y, m)

DateOfDay(n) ==
    LET y == YearOfDay(n)
    IN  n - DaysBeforeYear(y) - DaysBeforeMonth(y, MonthOfDay(n)) + 1

MinutesPerDay == 1440

\* new Date("YYYY-MM-01"): a date-only ISO text is parsed as UTC midnight.
DateFromMonthKey(month) ==
    MakeDay(month \div 100, (month % 100) - 1, 1) * MinutesPerDay

\* The local-time fields of a time value, as getFullYear/getMonth/getDate read them.
LocalDay(t, off) == (t + off) \div MinutesPerDay
LocalTimeOfDay(t, off) == (t + off) % MinutesPerDay

\* d.setMonth(d.getMonth() + 1), in local time
SetMonthPlusOne(t, off) ==
    LET n == LocalDay(t, off)
    IN  (MakeDay(YearOfDay(n), MonthOfDay(n) - 1 + 1, DateOfDay(n)) * MinutesPerDay
            + LocalTimeOfDay(t, off)) - off

\* d.setDate(0), in local time
SetDateZero(t, off) ==
    LET n == LocalDay(t, off)
    IN  (MakeDay(YearOfDay(n), MonthOfDay(n) - 1, 0) * MinutesPerDay
            + LocalTimeOfDay(t, off)) - off

\* d.toISOString().split('T')[0]: the calendar date in UTC
ISODate(t) ==
    LET n == t \div MinutesPerDay
    IN  YearOfDay(n) * 10000 + MonthOfDay(n) * 100 + DateOfDay(n)

\* `${month}-01`
MonthStartDate(month) == month * 100 + 1

\* endOfMonth.toISOString().split('T')[0] after setMonth(+1) and setDate(0)
MonthEndDate(month, off) ==
    ISODate(SetDateZero(SetMonthPlusOne(DateFromMonthKey(month), off), off))

(***************************************************************************)
(* The store client.                                                       *)
(***************************************************************************)
NoType == ""        \* the type argument left undefined
NoDate == 0         \* a date argument left undefined

IsDateDescending(s) == \A i \in 1..(Len(s) - 1) : s[i].date >= s[i + 1].date

\* The rows the query of getTransactions selects, as indices of the table.
TxQueryRows(tbl, userId, type, startDate, endDate) ==
    { i \in 1..Len(tbl) :
        /\ tbl[i].user_id = userId
        /\ (type # NoType => tbl[i].type = type)
        /\ (startDate # NoDate => tbl[i].date >= startDate)
        /\ (endDate # NoDate => tbl[i].date <= endDate) }

\* Every arrangement of the rows by date descending.
RECURSIVE DateDescending(_, _)
DateDescending(tbl, rows) ==
    IF rows = {} THEN { <<>> }
    ELSE LET latest == { i \in rows : \A j \in rows : tbl[i].date >= tbl[j].date }
         IN  UNION { { <<tbl[i]>> \o rest : rest \in DateDescending(tbl, rows \ {i}) } :
                     i \in latest }

\* Every answer getTransactions can give: the selected rows by date
\* descending; the store leaves the order of rows of one date open.
getTransactions(tbl, userId, type, startDate, endDate) ==
    DateDescending(tbl, TxQueryRows(tbl, userId, type, startDate, endDate))

NullBudget == [id |-> 0, user_id |-> "", month |-> 0, monthly_limit |-> 0]

\* .single(): the one selected row, else the error of the request: 'PGRST116'
\* when the rows selected are none or several, 'OTHER' when the request failed.
Single(rows, failed) ==
    IF failed THEN [data |-> NullBudget, error |-> "OTHER"]
    ELSE IF Cardinality(rows) = 1
         THEN [data |-> CHOOSE r \in rows : TRUE, error |-> ""]
         ELSE [data |-> NullBudget, error |-> "PGRST116"]

BudgetRows(tbl, userId, month) ==
    { b \in tbl : b.user_id = userId /\ b.month = month }

getBudget(tbl, userId, month, failed) ==
    LET r == Single(BudgetRows(tbl, userId, month), failed)
    IN  IF r.error # ""
        THEN IF r.error = "PGRST116"
             THEN [kind |-> "return", value |-> NullBudget]
             ELSE [kind |-> "throw", value |-> NullBudget]
        ELSE [kind |-> "return", value |-> r.data]

\* (currentExpenses / monthly_limit) * 100, kept as the exact quotient num/den
Percentage(currentExpenses, monthly_limit) ==
    IF monthly_limit > 0
    THEN [num |-> currentExpenses * 100, den |-> monthly_limit]
    ELSE [num |-> 0, den |-> 1]

PctAtLeast(p, n) == p.num >= n * p.den
PctBelow(p, n) == p.num < n * p.den

\* A near-limit flag without its upper bound.
IsNearLimitNoUpperBound(p) == PctAtLeast(p, 80)

IsNearLimit(p) == PctAtLeast(p, 80) /\ PctBelow(p, 100)
IsOverBudget(p) == PctAtLeast(p, 100)

\* The remaining budget with its operands exchanged.
RemainingBudgetReversed(monthly_limit, currentExpenses) == currentExpenses - monthly_limit

RemainingBudget(monthly_limit, currentExpenses) == monthly_limit - currentExpenses

BudgetStatus(monthly_limit, currentExpenses) ==
    LET percentage == Percentage(currentExpenses, monthly_limit)
    IN  [ kind |-> "status",
          currentExpenses |-> currentExpenses,
          monthlyLimit |-> monthly_limit,
          percentage |-> percentage,
          remainingBudget |-> RemainingBudget(monthly_limit, currentExpenses),
          isNearLimit |-> IsNearLimit(percentage),
          isOverBudget |-> IsOverBudget(percentage) ]

Amounts(data) == [k \in 1..Len(data) |-> data[k].amount]

\* The answers of getBudgetStatus: null, a status, or the error thrown by
\* getBudget or getTransactions.
getBudgetStatus(btbl, ttbl, off, userId, month, budgetFailed, txFailed) ==
    LET budget == getBudget(btbl, userId, month, budgetFailed)
        startDate == MonthStartDate(month)
        endDate == MonthEndDate(month, off)
    IN  IF budget.kind = "throw" THEN { [kind |-> "throw"] }
        ELSE IF budget.value = NullBudget THEN { [kind |-> "null"] }
        ELSE IF txFailed THEN { [kind |-> "throw"] }
        ELSE { BudgetStatus(budget.value.monthly_limit, SumSeq(Amounts(expenses))) :
                 expenses \in getTransactions(ttbl, userId, "expense", startDate, endDate) }

getMonthlyIncomeTotal(ttbl, off, userId, month, txFailed) ==
    LET startDate == MonthStartDate(month)
        endDate == MonthEndDate(month, off)
    IN  IF txFailed THEN { [kind |-> "throw", total |-> 0] }
        ELSE { [kind |-> "return", total |-> SumSeq(Amounts(incomes))] :
                 incomes \in getTransactions(ttbl, userId, "income", startDate, endDate) }

(***************************************************************************)
(* apiOut keeps the last read of the budget of a month: who read (fn, by), *)
(* the key, what the store held for the key when the lookup ran (rows), which  *)
(* lookup requests failed for another reason than 'no row', and the        *)
(* outcomes of getBudget, getBudgetStatus and getMonthlyIncomeTotal        *)
(* (kind "none" when the read did not call it).                            *)
(***************************************************************************)
NotCalled == [kind |-> "none"]

NoCall == [fn |-> "none", by |-> "", user |-> "", month |-> 0, rows |-> 0,
           budgetFailed |-> FALSE, statusFailed |-> FALSE,
           budget |-> NotCalled, status |-> NotCalled, income |-> NotCalled]

Read(fn, by, u, m, f1, f2, budget, status, income) ==
    [fn |-> fn, by |-> by, user |-> u, month |-> m,
     rows |-> Cardinality(BudgetRows(budgets, u, m)),
     budgetFailed |-> f1, statusFailed |-> f2,
     budget |-> budget, status |-> status, income |-> income]

OthersIdleForReads ==
    UNCHANGED <<budgets, nextId, transactions, tz, lookupFailed, overlapped, bm, list, summary, chart, picker, search, form>>

GetBudget(u, m) ==
    /\ \E failed \in BOOLEAN :
          apiOut' = Read("getBudget", "", u, m, failed, FALSE,
                         getBudget(budgets, u, m, failed), NotCalled, NotCalled)
    /\ OthersIdleForReads

GetBudgetStatus(u, m) ==
    /\ \E budgetFailed, txFailed \in BOOLEAN :
          \E r \in getBudgetStatus(budgets, transactions, tz, u, m, budgetFailed, txFailed) :
             apiOut' = Read("getBudgetStatus", "", u, m, FALSE, budgetFailed,
                            NotCalled, r, NotCalled)
    /\ OthersIdleForReads

GetMonthlyIncomeTotal(u, m) ==
    /\ \E txFailed \in BOOLEAN :
          \E r \in getMonthlyIncomeTotal(transactions, tz, u, m, txFailed) :
             apiOut' = Read("getMonthlyIncomeTotal", "", u, m, FALSE, FALSE,
                            NotCalled, NotCalled, r)
    /\ OthersIdleForReads

(***************************************************************************)
(* createOrUpdateBudget, a lookup request followed by an update or insert  *)
(* request, as BudgetManager.onSubmit calls it.  Two BudgetManager         *)
(* instances (two open tabs) run side by side.                             *)
(***************************************************************************)
Tabs == {"tabA", "tabB"}
CurrentMonth == 202403
NullStatus == [kind |-> "null"]

\* The lookup of createOrUpdateBudget: only `data` of the answer is read, so a
\* failed request and 'no row' both leave existingBudget null (id 0).
LookupExisting(tbl, userId, month, failed) ==
    Single(BudgetRows(tbl, userId, month), failed).data.id

UpdateBudget(tbl, id, monthly_limit) ==
    { IF b.id = id THEN [b EXCEPT !.monthly_limit = monthly_limit] ELSE b : b \in tbl }

NewBudget(id, userId, month, monthly_limit) ==
    [id |-> id, user_id |-> userId, month |-> month, monthly_limit |-> monthly_limit]

InsertBudget(tbl, row) == tbl \cup {row}

\* What BudgetManager renders.
BudgetManagerView(c) ==
    IF c.loading THEN "loading"
    ELSE IF c.isEditing THEN "editing"
    ELSE IF c.budget # NullBudget THEN "display"
    ELSE "no-budget"

\* pc: where the instance is; existing, formLimit, saveLookupFailed: the
\* locals of the createOrUpdateBudget call in flight (saveLookupFailed is the
\* `error` of the lookup answer, which the code does not read).
MountedBudgetManager(u) ==
    [ pc |-> "mounted", user |-> u, month |-> CurrentMonth,
      budget |-> NullBudget, budgetStatus |-> NullStatus,
      isEditing |-> FALSE, loading |-> TRUE, saving |-> FALSE,
      existing |-> 0, formLimit |-> 0, saveLookupFailed |-> FALSE ]

OthersIdleForBudget == UNCHANGED <<transactions, tz, list, summary, chart, picker, search, form>>

\* What fetchBudgetData leaves in the component state: the updates run only
\* when neither call threw; the catch only logs; finally clears loading.
AfterFetch(c, budgetData, statusData) ==
    IF budgetData.kind = "throw" \/ statusData.kind = "throw"
    THEN [c EXCEPT !.pc = "ready", !.loading = FALSE]
    ELSE [c EXCEPT !.pc = "ready", !.loading = FALSE,
                   !.budget = budgetData.value,
                   !.budgetStatus = statusData,
                   !.isEditing = (budgetData.value = NullBudget)]

\* fetchBudgetData: getBudget and getBudgetStatus together (Promise.all), then
\* the state updates.  The reads are taken at one moment of the store.
FetchBudgetData(t) ==
    /\ bm[t].pc = "mounted"
    /\ \E f1, f2, f3 \in BOOLEAN :
        LET c == bm[t]
            budgetData == getBudget(budgets, c.user, c.month, f1)
        IN  \E statusData \in getBudgetStatus(budgets, transactions, tz, c.user, c.month, f2, f3) :
              /\ bm' = [bm EXCEPT ![t] = AfterFetch(c, budgetData, statusData)]
              /\ apiOut' = Read("fetchBudgetData", t, c.user, c.month, f1, f2,
                                budgetData, statusData, NotCalled)
    /\ UNCHANGED <<budgets, nextId, lookupFailed, overlapped>>
    /\ OthersIdleForBudget

\* handleEdit, and the 'Set budget' button
HandleEdit(t) ==
    /\ bm[t].pc = "ready" /\ ~bm[t].isEditing
    /\ bm' = [bm EXCEPT ![t].isEditing = TRUE]
    /\ UNCHANGED <<budgets, nextId, lookupFailed, overlapped, apiOut>>
    /\ OthersIdleForBudget

HandleCancel(t) ==
    /\ bm[t].pc = "ready" /\ bm[t].isEditing
    /\ bm' = [bm EXCEPT ![t].isEditing = FALSE]
    /\ UNCHANGED <<budgets, nextId, lookupFailed, overlapped, apiOut>>
    /\ OthersIdleForBudget

\* onSubmit up to the answer of the lookup request of createOrUpdateBudget
SubmitLookup(t, limit) ==
    /\ bm[t].pc = "ready" /\ bm[t].isEditing /\ ~bm[t].saving
    /\ nextId <= MaxInserts
    /\ \E failed \in BOOLEAN :
        /\ bm' = [bm EXCEPT ![t] =
              [bm[t] EXCEPT !.pc = "looked", !.saving = TRUE, !.formLimit = limit,
                        !.existing = LookupExisting(budgets, bm[t].user, bm[t].month, failed),
                        !.saveLookupFailed = failed]]
        /\ lookupFailed' = (lookupFailed \/ failed)
    /\ overlapped' = (overlapped \/ \E o \in Tabs \ {t} : bm[o].pc = "looked")
    /\ UNCHANGED <<budgets, nextId, apiOut>>
    /\ OthersIdleForBudget

\* The component state after createOrUpdateBudget threw
AfterSaveFailed(c) ==
    [c EXCEPT !.pc = "ready", !.saving = FALSE, !.existing = 0, !.formLimit = 0,
              !.saveLookupFailed = FALSE]

\* The component state after createOrUpdateBudget returned newBudget
AfterSaved(c, newBudget) ==
    [c EXCEPT !.pc = "written", !.isEditing = FALSE, !.budget = newBudget,
              !.existing = 0, !.formLimit = 0, !.saveLookupFailed = FALSE]

\* the update request of createOrUpdateBudget, then setBudget/setIsEditing;
\* a failed request throws into onSubmit's catch
SubmitUpdate(t) ==
    /\ bm[t].pc = "looked" /\ bm[t].existing # 0
    /\ \E failed \in BOOLEAN :
        LET c == bm[t]
            tbl == UpdateBudget(budgets, c.existing, c.formLimit)
        IN  IF failed
            THEN /\ bm' = [bm EXCEPT ![t] = AfterSaveFailed(c)]
                 /\ UNCHANGED budgets
            ELSE /\ budgets' = tbl
                 /\ bm' = [bm EXCEPT ![t] =
                             AfterSaved(c, CHOOSE b \in tbl : b.id = c.existing)]
    /\ UNCHANGED <<nextId, lookupFailed, overlapped, apiOut>>
    /\ OthersIdleForBudget

\* the insert request of createOrUpdateBudget, then setBudget/setIsEditing
SubmitInsert(t) ==
    /\ bm[t].pc = "looked" /\ bm[t].existing = 0
    /\ \E failed \in BOOLEAN :
        LET c == bm[t]
            row == NewBudget(nextId, c.user, c.month, c.formLimit)
        IN  IF failed
            THEN /\ bm' = [bm EXCEPT ![t] = AfterSaveFailed(c)]
                 /\ UNCHANGED <<budgets, nextId>>
            ELSE /\ budgets' = InsertBudget(budgets, row)
                 /\ nextId' = nextId + 1
                 /\ bm' = [bm EXCEPT ![t] = AfterSaved(c, row)]
    /\ UNCHANGED <<lookupFailed, overlapped, apiOut>>
    /\ OthersIdleForBudget

\* the rest of onSubmit: refresh the status, then setSaving(false)
SubmitRefresh(t) ==
    /\ bm[t].pc = "written"
    /\ \E f2, f3 \in BOOLEAN :
        LET c == bm[t]
        IN  \E newStatus \in getBudgetStatus(budgets, transactions, tz, c.user, c.month, f2, f3) :
              /\ bm' = [bm EXCEPT ![t] =
                    IF newStatus.kind = "throw"
                    THEN [c EXCEPT !.pc = "ready", !.saving = FALSE]
                    ELSE [c EXCEPT !.pc = "ready", !.saving = FALSE,
                                   !.budgetStatus = newStatus]]
              /\ apiOut' = Read("onSubmit", t, c.user, c.month, FALSE, f2,
                                NotCalled, newStatus, NotCalled)
    /\ UNCHANGED <<budgets, nextId, lookupFailed, overlapped>>
    /\ OthersIdleForBudget

(***************************************************************************)
(* Texts: toLowerCase and includes over a small alphabet.                  *)
(***************************************************************************)
Letters == {"a", "A", "b", "B"}

LowerOf(c) == IF c = "A" THEN "a" ELSE IF c = "B" THEN "b" ELSE c

toLowerCase(text) == [k \in 1..Len(text) |-> LowerOf(text[k])]

\* text.includes(sub)
includes(text, sub) ==
    \E k \in 0..(Len(text) - Len(sub)) : SubSeq(text, k + 1, k + Len(sub)) = sub

\* array.includes(x)
arrayIncludes(arr, x) == \E k \in 1..Len(arr) : arr[k] = x

\* The instant the components take as now: 2024-03-15T12:00Z
Now == (MakeDay(2024, 2, 15) * MinutesPerDay) + 720

\* new Date(now.getFullYear(), now.getMonth(), 1).toISOString().split('T')[0]
FirstDayOfMonthISO(t, off) ==
    LET n == LocalDay(t, off)
    IN  ISODate((MakeDay(YearOfDay(n), MonthOfDay(n) - 1, 1) * MinutesPerDay) - off)

(***************************************************************************)
(* TransactionList: the fetch effect and the filtered view.                *)
(***************************************************************************)
\* (transaction as any).investment_name || transaction.source for an
\* investment, transaction.source otherwise; a missing name is the empty text
SearchedText(tr) ==
    IF tr.type = "investment"
    THEN IF tr.investment_name # <<>> THEN tr.investment_name ELSE tr.source
    ELSE tr.source

\* A search that compares the texts as written.
matchesSearchCaseSensitive(tr, searchQuery) ==
    searchQuery = <<>> \/ includes(SearchedText(tr), searchQuery)

matchesSearch(tr, searchQuery) ==
    searchQuery = <<>> \/ includes(toLowerCase(SearchedText(tr)), toLowerCase(searchQuery))

\* A tag filter without the case of an empty selection.
matchesTagsNonEmptyOnly(tr, tagFilters) ==
    \E k \in 1..Len(tagFilters) : arrayIncludes(tr.tags, tagFilters[k])

matchesTags(tr, tagFilters) ==
    Len(tagFilters) = 0 \/ \E k \in 1..Len(tagFilters) : arrayIncludes(tr.tags, tagFilters[k])

\* allTransactions.filter(...)
RECURSIVE filteredTransactions(_, _, _)
filteredTransactions(all, searchQuery, tagFilters) ==
    IF all = <<>> THEN <<>>
    ELSE LET tr == Head(all)
             rest == filteredTransactions(Tail(all), searchQuery, tagFilters)
         IN  IF matchesSearch(tr, searchQuery) /\ matchesTags(tr, tagFilters)
             THEN <<tr>> \o rest
             ELSE rest

\* The component after mount: the props, the state, and the memoized view.
\* succeeded records that a fetch of this component has succeeded.
MountedList(u, type, startDate, endDate) ==
    [ user |-> u, type |-> type, startDate |-> startDate, endDate |-> endDate,
      searchQuery |-> <<>>, tagFilters |-> <<>>,
      allTransactions |-> <<>>, transactions |-> <<>>,
      loading |-> TRUE, error |-> FALSE, succeeded |-> FALSE,
      filteredTransactions |-> <<>> ]

\* The render after a change of state or props recomputes the memoized view.
Rendered(c) ==
    [c EXCEPT !.filteredTransactions =
        filteredTransactions(c.allTransactions, c.searchQuery, c.tagFilters)]

ListIdle == MountedList("u1", NoType, NoDate, NoDate)

OthersIdleForList ==
    UNCHANGED <<budgets, nextId, transactions, tz, apiOut, lookupFailed, overlapped, bm, summary, chart, picker, search, form>>

\* currentStartDate and currentEndDate of fetchTransactions
ListStartDate(c, off) ==
    IF c.startDate # NoDate THEN c.startDate ELSE FirstDayOfMonthISO(Now, off)

ListEndDate(c) == IF c.endDate # NoDate THEN c.endDate ELSE ISODate(Now)

\* fetchTransactions, to its end
FetchTransactions ==
    /\ list.loading
    /\ \E failed \in BOOLEAN :
         IF failed
         THEN list' = Rendered([list EXCEPT !.error = TRUE, !.loading = FALSE])
         ELSE \E data \in getTransactions(transactions, list.user, list.type,
                                          ListStartDate(list, tz), ListEndDate(list)) :
                list' = Rendered([list EXCEPT !.allTransactions = data,
                                              !.transactions = data,
                                              !.error = FALSE, !.loading = FALSE,
                                              !.succeeded = TRUE])
    /\ OthersIdleForList

\* the parent passes another searchQuery (SearchBar's onSearch)
SetSearchQuery(q) ==
    /\ q # list.searchQuery
    /\ list' = Rendered([list EXCEPT !.searchQuery = q])
    /\ OthersIdleForList

\* the parent passes other tagFilters (TagFilter's selection)
SetTagFilters(f) ==
    /\ f # list.tagFilters
    /\ list' = Rendered([list EXCEPT !.tagFilters = f])
    /\ OthersIdleForList

\* What the component draws: the spinner while loading, else the error text
\* alone, else the empty note or the table of the filtered rows.
ListView(c) ==
    IF c.loading THEN [parts |-> {"spinner"}, rows |-> <<>>]
    ELSE IF c.error THEN [parts |-> {"error"}, rows |-> <<>>]
    ELSE IF c.filteredTransactions = <<>> THEN [parts |-> {"empty"}, rows |-> <<>>]
    ELSE [parts |-> {"table"}, rows |-> c.filteredTransactions]

\* The page passes another date range; the effect runs again.
SetListDateRange(startDate, endDate) ==
    /\ <<startDate, endDate>> # <<list.startDate, list.endDate>>
    /\ list' = Rendered([list EXCEPT !.startDate = startDate, !.endDate = endDate,
                                     !.loading = TRUE])
    /\ OthersIdleForList

(***************************************************************************)
(* DashboardSummary: the fetch effect and the totals.                      *)
(***************************************************************************)
\* Savings held at zero from below.
calculateSavingsClamped(income, expenses, investments) ==
    Max(0, income - (expenses + investments))

calculateSavings(income, expenses, investments) == income - (expenses + investments)

RECURSIVE OfType(_, _)
OfType(data, type) ==
    IF data = <<>> THEN <<>>
    ELSE IF Head(data).type = type
         THEN <<Head(data)>> \o OfType(Tail(data), type)
         ELSE OfType(Tail(data), type)

\* .filter(t => t.type === type).reduce((sum, t) => sum + t.amount, 0)
TotalOfType(data, type) == SumSeq(Amounts(OfType(data, type)))

Totals(data) ==
    LET income == TotalOfType(data, "income")
        expenses == TotalOfType(data, "expense")
        investments == TotalOfType(data, "investment")
    IN  [ income |-> income, expenses |-> expenses, investments |-> investments,
          savings |-> calculateSavings(income, expenses, investments) ]

\* The component after mount; fetched is allTransactions of the last fetch
\* that returned.
MountedSummary(u, startDate, endDate) ==
    [ user |-> u, startDate |-> startDate, endDate |-> endDate,
      period |-> IF startDate # NoDate THEN "all" ELSE "month",
      summary |-> [income |-> 0, expenses |-> 0, investments |-> 0, savings |-> 0],
      loading |-> TRUE, error |-> FALSE, succeeded |-> FALSE, fetched |-> <<>> ]

SummaryIdle == MountedSummary("u1", NoDate, NoDate)

OthersIdleForSummary ==
    UNCHANGED <<budgets, nextId, transactions, tz, apiOut, lookupFailed, overlapped, bm, list, chart, picker, search, form>>

\* currentStartDate of fetchSummary
SummaryStartDate(c, off) ==
    IF c.startDate = NoDate /\ c.period = "month"
    THEN FirstDayOfMonthISO(Now, off)
    ELSE c.startDate

\* fetchSummary, to its end
FetchSummary ==
    /\ summary.loading
    /\ \E failed \in BOOLEAN :
         IF failed
         THEN summary' = [summary EXCEPT !.error = TRUE, !.loading = FALSE]
         ELSE \E data \in getTransactions(transactions, summary.user, NoType,
                                          SummaryStartDate(summary, tz), summary.endDate) :
                summary' = [summary EXCEPT !.summary = Totals(data), !.fetched = data,
                                           !.error = FALSE, !.loading = FALSE,
                                           !.succeeded = TRUE]
    /\ OthersIdleForSummary

\* What the component draws: the spinner while loading, else the error text
\* alone, else the four cards.
SummaryView(c) ==
    IF c.loading THEN [parts |-> {"spinner"}, cards |-> <<>>]
    ELSE IF c.error THEN [parts |-> {"error"}, cards |-> <<>>]
    ELSE [parts |-> {"cards"}, cards |-> <<c.summary>>]

\* The page passes another date range; the effect runs again.
SetSummaryDateRange(startDate, endDate) ==
    /\ <<startDate, endDate>> # <<summary.startDate, summary.endDate>>
    /\ summary' = [summary EXCEPT !.startDate = startDate, !.endDate = endDate,
                                  !.loading = TRUE]
    /\ OthersIdleForSummary

\* the period buttons, shown when the parent gives no date range; the effect
\* runs again on a change of period
SetPeriod(p) ==
    /\ summary.startDate = NoDate /\ summary.endDate = NoDate
    /\ ~summary.loading /\ ~summary.error
    /\ p # summary.period
    /\ summary' = [summary EXCEPT !.period = p, !.loading = TRUE]
    /\ OthersIdleForSummary


(***************************************************************************)
(* BreakdownChart: the fetch effect and the buckets per tag.               *)
(***************************************************************************)
DataTypes == {"income", "expenses", "savings", "investments"}

\* the kind of transaction a selected type groups
KindOf(selectedType) ==
    IF selectedType = "income" THEN "income"
    ELSE IF selectedType = "expenses" THEN "expense"
    ELSE "investment"

NoBuckets == [k \in {} |-> 0]

\* categoryData[key] = (categoryData[key] || 0) + amount
AddToBucket(categoryData, key, amount) ==
    [k \in DOMAIN categoryData \cup {key} |->
        (IF k \in DOMAIN categoryData THEN categoryData[k] ELSE 0)
        + (IF k = key THEN amount ELSE 0)]

\* A transaction that credits its first tag alone.
BucketKeysFirstTagOnly(tr) ==
    IF Len(tr.tags) > 0 THEN <<tr.tags[1]>> ELSE <<"Uncategorized">>

\* the buckets one transaction adds to, in the order of the forEach
BucketKeys(tr) ==
    IF Len(tr.tags) > 0 THEN tr.tags ELSE <<"Uncategorized">>

RECURSIVE AddToBuckets(_, _, _)
AddToBuckets(categoryData, keys, amount) ==
    IF keys = <<>> THEN categoryData
    ELSE AddToBuckets(AddToBucket(categoryData, Head(keys), amount), Tail(keys), amount)

\* transactions.forEach(transaction => ...)
RECURSIVE GroupByTags(_, _)
GroupByTags(categoryData, txs) ==
    IF txs = <<>> THEN categoryData
    ELSE GroupByTags(AddToBuckets(categoryData, BucketKeys(Head(txs)), Head(txs).amount),
                     Tail(txs))

Abs(n) == IF n < 0 THEN -n ELSE n

\* the savings branch: one bucket
SavingsBucket(data) ==
    LET totalSavings == calculateSavings(TotalOfType(data, "income"),
                                         TotalOfType(data, "expense"),
                                         TotalOfType(data, "investment"))
    IN  IF totalSavings > 0
        THEN AddToBucket(NoBuckets, "Total Savings", totalSavings)
        ELSE AddToBucket(NoBuckets, "No Savings", Abs(totalSavings))

CategoryData(data, selectedType) ==
    IF selectedType = "savings" THEN SavingsBucket(data)
    ELSE GroupByTags(NoBuckets, OfType(data, KindOf(selectedType)))

\* The component after mount; fetched is allTransactions of the last fetch
\* that returned.
MountedBreakdownChart(u, startDate, endDate) ==
    [ fn |-> "BreakdownChart", user |-> u, startDate |-> startDate, endDate |-> endDate,
      selectedType |-> "expenses", categoryData |-> NoBuckets,
      loading |-> TRUE, error |-> FALSE, fetched |-> <<>>, fetchedType |-> "expenses" ]

OthersIdleForChart ==
    UNCHANGED <<budgets, nextId, transactions, tz, apiOut, lookupFailed, overlapped, bm,
                list, summary, picker, search, form>>

\* fetchStartDate and fetchEndDate of the chart
ChartStartDate(c, off) ==
    IF c.startDate # NoDate THEN c.startDate ELSE FirstDayOfMonthISO(Now, off)

ChartEndDate(c) == IF c.startDate # NoDate THEN c.endDate ELSE ISODate(Now)

\* fetchChartData of BreakdownChart, to its end
BreakdownFetchChartData ==
    /\ chart.fn = "BreakdownChart"
    /\ chart.loading
    /\ \E failed \in BOOLEAN :
         IF failed
         THEN chart' = [chart EXCEPT !.error = TRUE, !.loading = FALSE]
         ELSE \E data \in getTransactions(transactions, chart.user, NoType,
                                          ChartStartDate(chart, tz), ChartEndDate(chart)) :
                chart' = [chart EXCEPT !.categoryData = CategoryData(data, chart.selectedType),
                                       !.fetched = data, !.fetchedType = chart.selectedType,
                                       !.error = FALSE, !.loading = FALSE]
    /\ OthersIdleForChart

\* the dropdown, shown with the chart; the effect runs again on a change
SetSelectedType(type) ==
    /\ chart.fn = "BreakdownChart"
    /\ ~chart.loading /\ ~chart.error
    /\ type # chart.selectedType
    /\ chart' = [chart EXCEPT !.selectedType = type, !.loading = TRUE]
    /\ OthersIdleForChart

(***************************************************************************)
(* ExpensesChart: expenses by category (top ten) and by month.             *)
(***************************************************************************)
TopCategories == 10

Periods == {"3m", "6m", "1y"}

monthsToLookBack(period) == IF period = "3m" THEN 3 ELSE IF period = "6m" THEN 6 ELSE 12

\* subMonths(date, n) of date-fns: the same local day and time n months
\* earlier, the day held within the target month
subMonths(t, n, off) ==
    LET d0 == LocalDay(t, off)
        idx == (YearOfDay(d0) * 12 + (MonthOfDay(d0) - 1)) - n
        y == idx \div 12
        m0 == idx % 12
        dt == Min(DateOfDay(d0), DaysInMonth(y, m0 + 1))
    IN  ((MakeDay(y, m0, dt) * MinutesPerDay) + LocalTimeOfDay(t, off)) - off

\* format(date, 'MMM yyyy') of an instant, as a month key
MonthKeyOf(t, off) ==
    LET d0 == LocalDay(t, off) IN YearOfDay(d0) * 100 + MonthOfDay(d0)

\* categories[category] += transaction.amount, keys in insertion order
AddCategory(entries, category, amount) ==
    IF \E k \in 1..Len(entries) : entries[k].label = category
    THEN [k \in 1..Len(entries) |->
            IF entries[k].label = category
            THEN [entries[k] EXCEPT !.value = @ + amount]
            ELSE entries[k]]
    ELSE Append(entries, [label |-> category, value |-> amount])

RECURSIVE GroupBySource(_, _)
GroupBySource(entries, txs) ==
    IF txs = <<>> THEN entries
    ELSE GroupBySource(AddCategory(entries, Head(txs).source, Head(txs).amount), Tail(txs))

\* one entry put into a sequence sorted by value descending, after its equals
InsertDescending(sorted, e) ==
    LET before == { k \in 1..Len(sorted) : sorted[k].value >= e.value }
        n == Cardinality(before)
    IN  SubSeq(sorted, 1, n) \o <<e>> \o SubSeq(sorted, n + 1, Len(sorted))

\* .sort((a, b) => b[1] - a[1]), a stable sort
RECURSIVE SortDescending(_, _)
SortDescending(sorted, entries) ==
    IF entries = <<>> THEN sorted
    ELSE SortDescending(InsertDescending(sorted, Head(entries)), Tail(entries))

\* .slice(0, 10)
Slice(s, n) == SubSeq(s, 1, Min(n, Len(s)))

\* the category view: sortedCategories
SortedCategories(txs) ==
    Slice(SortDescending(<<>>, GroupBySource(<<>>, txs)), TopCategories)

\* the trend view: one entry per month of the period, oldest first, holding
\* the amounts of the transactions of that month
MonthlyExpenses(txs, n, t, off) ==
    [k \in 1..n |->
        LET key == MonthKeyOf(subMonths(t, n - k, off), off)
        IN  [label |-> key,
             value |-> SumSeq(Amounts(SelectSeq(txs, LAMBDA tr : tr.date \div 100 = key)))]]

MountedExpensesChart(u) ==
    [ fn |-> "ExpensesChart", user |-> u, viewType |-> "category", period |-> "3m",
      categoryData |-> <<>>, trendData |-> <<>>,
      loading |-> TRUE, error |-> FALSE, fetched |-> <<>>, fetchedView |-> "none" ]

\* fetchChartData of ExpensesChart, to its end
ExpensesFetchChartData ==
    /\ chart.fn = "ExpensesChart"
    /\ chart.loading
    /\ \E failed \in BOOLEAN :
         IF failed
         THEN chart' = [chart EXCEPT !.error = TRUE, !.loading = FALSE]
         ELSE LET n == monthsToLookBack(chart.period)
              IN  \E data \in getTransactions(transactions, chart.user, "expense",
                                              ISODate(subMonths(Now, n, tz)), ISODate(Now)) :
                    chart' = [chart EXCEPT
                                !.categoryData = IF chart.viewType = "category"
                                                 THEN SortedCategories(data) ELSE @,
                                !.trendData = IF chart.viewType = "trend"
                                              THEN MonthlyExpenses(data, n, Now, tz) ELSE @,
                                !.fetched = data, !.fetchedView = chart.viewType,
                                !.error = FALSE, !.loading = FALSE]
    /\ OthersIdleForChart

\* the view buttons; the effect runs again on a change
SetViewType(v) ==
    /\ chart.fn = "ExpensesChart"
    /\ ~chart.loading /\ ~chart.error
    /\ v # chart.viewType
    /\ chart' = [chart EXCEPT !.viewType = v, !.loading = TRUE]
    /\ OthersIdleForChart

\* the period buttons; the effect runs again on a change
SetChartPeriod(p) ==
    /\ chart.fn = "ExpensesChart"
    /\ ~chart.loading /\ ~chart.error
    /\ p # chart.period
    /\ chart' = [chart EXCEPT !.period = p, !.loading = TRUE]
    /\ OthersIdleForChart

(***************************************************************************)
(* The monthly series: IncomeChart, TrendChart and SavingsChart.           *)
(***************************************************************************)
\* new Date("YYYY-MM-DD"): a date-only ISO text is parsed as UTC midnight
DateFromISO(date) ==
    MakeDay(date \div 10000, ((date \div 100) % 100) - 1, date % 100) * MinutesPerDay

\* format(parseISO(transaction.date), 'MMM yyyy'), as a month key
MonthKeyOfDate(date) == date \div 100

\* the month i months after month key, as new Date(y, m + i, 1) reads it
AddMonthsToKey(key, i) ==
    LET idx == ((key \div 100) * 12 + ((key % 100) - 1)) + i
    IN  (idx \div 12) * 100 + (idx % 12) + 1

\* Object.keys of a record filled per transaction: the months in the order
\* of their first transaction
RECURSIVE MonthsByAppearance(_, _)
MonthsByAppearance(keys, txs) ==
    IF txs = <<>> THEN keys
    ELSE LET key == MonthKeyOfDate(Head(txs).date)
         IN  MonthsByAppearance(
                IF \E k \in 1..Len(keys) : keys[k] = key THEN keys ELSE Append(keys, key),
                Tail(txs))

\* month keys, oldest first
RECURSIVE Chronological(_)
Chronological(S) ==
    IF S = {} THEN <<>>
    ELSE LET first == CHOOSE k \in S : \A j \in S : k <= j
         IN  <<first>> \o Chronological(S \ {first})

SeqRange(s) == { s[k] : k \in 1..Len(s) }

InMonth(txs, key) == SelectSeq(txs, LAMBDA tr : MonthKeyOfDate(tr.date) = key)

\* the value of a month for one selected type
MonthValue(txs, key, selectedType) ==
    IF selectedType = "savings" THEN Totals(InMonth(txs, key)).savings
    ELSE TotalOfType(InMonth(txs, key), KindOf(selectedType))

TrendFns == {"IncomeChart", "TrendChart", "SavingsChart"}

PeriodsOf(fn) == IF fn = "SavingsChart" THEN {"6m", "1y"} ELSE Periods

\* The component after mount; fetched is the answer of the last fetch that
\* returned, fetchStart and fetchEnd the dates it asked for.
MountedTrend(fn, u, startDate, endDate, expenseOnly) ==
    [ fn |-> fn, user |-> u, startDate |-> startDate, endDate |-> endDate,
      period |-> "6m",
      selectedType |-> IF fn = "SavingsChart" THEN "savings"
                       ELSE IF fn = "TrendChart" /\ expenseOnly THEN "expenses"
                       ELSE "income",
      labels |-> <<>>, data |-> <<>>,
      loading |-> TRUE, error |-> FALSE,
      fetched |-> <<>>, fetchStart |-> NoDate, fetchEnd |-> NoDate ]

TrendStartDate(c, off) ==
    IF c.startDate # NoDate /\ c.endDate # NoDate THEN c.startDate
    ELSE ISODate(subMonths(Now, monthsToLookBack(c.period), off))

TrendEndDate(c) ==
    IF c.startDate # NoDate /\ c.endDate # NoDate THEN c.endDate ELSE ISODate(Now)

\* IncomeChart: the months that hold income.  The comparator of its sort
\* subtracts parseISO('MMM yyyy'), an invalid date, so it answers NaN, taken
\* as 0: the stable sort leaves the keys as they were inserted.
IncomeChartLabels(txs) == { MonthsByAppearance(<<>>, txs) }

\* TrendChart: the months that hold a transaction.  Its comparator parses
\* 'MMM yyyy' with new Date, which the engine may read as the first of the
\* month or refuse: oldest first, or as inserted.
TrendChartLabels(txs) ==
    { Chronological(SeqRange(MonthsByAppearance(<<>>, txs))), MonthsByAppearance(<<>>, txs) }

\* SavingsChart: every month from the local month of the start to the local
\* month of the end.
SavingsChartLabels(fetchStart, fetchEnd, off) ==
    LET s == LocalDay(DateFromISO(fetchStart), off)
        e == LocalDay(DateFromISO(fetchEnd), off)
        monthDiff == ((YearOfDay(e) - YearOfDay(s)) * 12 + (MonthOfDay(e) - MonthOfDay(s))) + 1
        first == YearOfDay(s) * 100 + MonthOfDay(s)
    IN  { [i \in 1..Max(monthDiff, 0) |-> AddMonthsToKey(first, i - 1)] }

TrendLabels(c, txs, fetchStart, fetchEnd, off) ==
    IF c.fn = "IncomeChart" THEN IncomeChartLabels(txs)
    ELSE IF c.fn = "TrendChart" THEN TrendChartLabels(txs)
    ELSE SavingsChartLabels(fetchStart, fetchEnd, off)

\* fetchChartData of the three charts, to its end
TrendFetchChartData ==
    /\ chart.fn \in TrendFns
    /\ chart.loading
    /\ \E failed \in BOOLEAN :
         IF failed
         THEN chart' = [chart EXCEPT !.error = TRUE, !.loading = FALSE]
         ELSE LET fetchStart == TrendStartDate(chart, tz)
                  fetchEnd == TrendEndDate(chart)
                  type == IF chart.fn = "IncomeChart" THEN "income" ELSE NoType
              IN  \E txs \in getTransactions(transactions, chart.user, type, fetchStart, fetchEnd) :
                  \E labels \in TrendLabels(chart, txs, fetchStart, fetchEnd, tz) :
                    chart' = [chart EXCEPT
                                !.labels = labels,
                                !.data = [k \in 1..Len(labels) |->
                                            MonthValue(txs, labels[k], chart.selectedType)],
                                !.fetched = txs,
                                !.fetchStart = fetchStart, !.fetchEnd = fetchEnd,
                                !.error = FALSE, !.loading = FALSE]
    /\ OthersIdleForChart

\* the period buttons, shown when the parent gives no date range
SetTrendPeriod(p) ==
    /\ chart.fn \in TrendFns
    /\ chart.startDate = NoDate /\ chart.endDate = NoDate
    /\ ~chart.loading /\ ~chart.error
    /\ p \in PeriodsOf(chart.fn)
    /\ p # chart.period
    /\ chart' = [chart EXCEPT !.period = p, !.loading = TRUE]
    /\ OthersIdleForChart

\* the dropdown of TrendChart
SetTrendType(type) ==
    /\ chart.fn = "TrendChart"
    /\ ~chart.loading /\ ~chart.error
    /\ type # chart.selectedType
    /\ chart' = [chart EXCEPT !.selectedType = type, !.loading = TRUE]
    /\ OthersIdleForChart

(***************************************************************************)
(* ExpenseHeatmap: the expenses per day and their intensity levels.        *)
(***************************************************************************)
\* Math.max(...heatmapData.map(d => d.amount)) over a non-empty array
MaxAmountOf(heatmapData) ==
    CHOOSE a \in { heatmapData[k].amount : k \in 1..Len(heatmapData) } :
        \A k \in 1..Len(heatmapData) : heatmapData[k].amount <= a

\* amount / maxAmount <= fifths / 5, for a positive maxAmount
RatioAtMost(amount, maxAmount, fifths) == 5 * amount <= fifths * maxAmount

\* Levels cut at a quarter, a half and three quarters.
getIntensityLevelByQuarters(amount, heatmapData) ==
    IF amount = 0 THEN 0
    ELSE LET maxAmount == MaxAmountOf(heatmapData)
         IN  IF maxAmount = 0 THEN 0
             ELSE IF 4 * amount <= maxAmount THEN 1
             ELSE IF 4 * amount <= 2 * maxAmount THEN 2
             ELSE IF 4 * amount <= 3 * maxAmount THEN 3
             ELSE IF 4 * amount < 4 * maxAmount THEN 4
             ELSE 5

getIntensityLevel(amount, heatmapData) ==
    IF amount = 0 THEN 0
    ELSE LET maxAmount == MaxAmountOf(heatmapData)
         IN  IF maxAmount = 0 THEN 0
             ELSE IF RatioAtMost(amount, maxAmount, 1) THEN 1
             ELSE IF RatioAtMost(amount, maxAmount, 2) THEN 2
             ELSE IF RatioAtMost(amount, maxAmount, 3) THEN 3
             ELSE IF RatioAtMost(amount, maxAmount, 4) THEN 4
             ELSE 5

\* format(startOfDay(new Date(date)), 'yyyy-MM-dd'): the local day of the
\* UTC midnight of a date, as a day number
LocalDayOfISO(date, off) == LocalDay(DateFromISO(date), off)

\* eachDayOfInterval({ start, end }) and the amounts of each day
HeatmapData(txs, fetchStart, fetchEnd, off) ==
    LET first == LocalDayOfISO(fetchStart, off)
        last == LocalDayOfISO(fetchEnd, off)
    IN  [k \in 1..Max((last - first) + 1, 0) |->
            LET day == first + (k - 1)
                ofDay == SelectSeq(txs, LAMBDA tr : LocalDayOfISO(tr.date, off) = day)
            IN  [day |-> day, amount |-> SumSeq(Amounts(ofDay)), transactionCount |-> Len(ofDay)]]

\* The component after mount; levels are the levels of the days as drawn.
MountedExpenseHeatmap(u, startDate, endDate) ==
    [ fn |-> "ExpenseHeatmap", user |-> u, startDate |-> startDate, endDate |-> endDate,
      heatmapData |-> <<>>, levels |-> <<>>,
      loading |-> TRUE, error |-> FALSE, fetched |-> <<>> ]

HeatmapLevels(heatmapData) ==
    [k \in 1..Len(heatmapData) |-> getIntensityLevel(heatmapData[k].amount, heatmapData)]

HeatmapStartDate(c, off) ==
    IF c.startDate # NoDate /\ c.endDate # NoDate THEN c.startDate
    ELSE ISODate(subMonths(Now, 12, off))

HeatmapEndDate(c) ==
    IF c.startDate # NoDate /\ c.endDate # NoDate THEN c.endDate ELSE ISODate(Now)

\* fetchHeatmapData, to its end, and the render after it
FetchHeatmapData ==
    /\ chart.fn = "ExpenseHeatmap"
    /\ chart.loading
    /\ \E failed \in BOOLEAN :
         IF failed
         THEN chart' = [chart EXCEPT !.error = TRUE, !.loading = FALSE]
         ELSE LET fetchStart == HeatmapStartDate(chart, tz)
                  fetchEnd == HeatmapEndDate(chart)
              IN  \E txs \in getTransactions(transactions, chart.user, "expense",
                                             fetchStart, fetchEnd) :
                    LET data == HeatmapData(txs, fetchStart, fetchEnd, tz)
                    IN  chart' = [chart EXCEPT !.heatmapData = data,
                                               !.levels = HeatmapLevels(data),
                                               !.fetched = txs,
                                               !.error = FALSE, !.loading = FALSE]
    /\ OthersIdleForChart

\* the parent passes another date range: the effect runs again
SetHeatmapRange(startDate, endDate) ==
    /\ chart.fn = "ExpenseHeatmap"
    /\ ~chart.loading
    /\ <<startDate, endDate>> # <<chart.startDate, chart.endDate>>
    /\ chart' = [chart EXCEPT !.startDate = startDate, !.endDate = endDate, !.loading = TRUE]
    /\ OthersIdleForChart

(***************************************************************************)
(* The IST helpers and date-fns boundaries.                                *)
(***************************************************************************)
IstOffset == 330    \* 5.5 * 60 minutes

EndOfDayMinute == 1439  \* 23:59:59, in whole minutes

\* new Date(y, m0, dt, h, min, s): the fields are read in local time
NewLocalDate(y, m0, dt, minute, off) ==
    ((MakeDay(y, m0, dt) * MinutesPerDay) + minute) - off

\* date.getTimezoneOffset() is -off; the result is a Date whose local fields
\* read the wall clock of UTC+5:30
toIndianTime(t, off) == (t + (-off)) + IstOffset

formatDateForIST(t, off) ==
    LET ist == LocalDay(toIndianTime(t, off), off)
    IN  YearOfDay(ist) * 10000 + MonthOfDay(ist) * 100 + DateOfDay(ist)

startOfDayIST(t, off) ==
    LET ist == LocalDay(toIndianTime(t, off), off)
    IN  NewLocalDate(YearOfDay(ist), MonthOfDay(ist) - 1, DateOfDay(ist), 0, off)

endOfDayIST(t, off) ==
    LET ist == LocalDay(toIndianTime(t, off), off)
    IN  NewLocalDate(YearOfDay(ist), MonthOfDay(ist) - 1, DateOfDay(ist), EndOfDayMinute, off)

startOfMonthIST(t, off) ==
    LET ist == LocalDay(toIndianTime(t, off), off)
    IN  NewLocalDate(YearOfDay(ist), MonthOfDay(ist) - 1, 1, 0, off)

\* startDate.setDate(startDate.getDate() - n), in local time
SetDateMinus(t, n, off) ==
    LET d == LocalDay(t, off)
    IN  NewLocalDate(YearOfDay(d), MonthOfDay(d) - 1, DateOfDay(d) - n, LocalTimeOfDay(t, off), off)

\* startOfMonth .. endOfYear of date-fns, in local time
startOfMonth(t, off) ==
    LET d == LocalDay(t, off) IN NewLocalDate(YearOfDay(d), MonthOfDay(d) - 1, 1, 0, off)

endOfMonth(t, off) ==
    LET d == LocalDay(t, off)
    IN  NewLocalDate(YearOfDay(d), MonthOfDay(d), 0, EndOfDayMinute, off)

startOfQuarter(t, off) ==
    LET d == LocalDay(t, off)
    IN  NewLocalDate(YearOfDay(d), ((MonthOfDay(d) - 1) \div 3) * 3, 1, 0, off)

endOfQuarter(t, off) ==
    LET d == LocalDay(t, off)
    IN  NewLocalDate(YearOfDay(d), (((MonthOfDay(d) - 1) \div 3) * 3) + 3, 0, EndOfDayMinute, off)

startOfYear(t, off) == LET d == LocalDay(t, off) IN NewLocalDate(YearOfDay(d), 0, 1, 0, off)

endOfYear(t, off) ==
    LET d == LocalDay(t, off) IN NewLocalDate(YearOfDay(d), 11, 31, EndOfDayMinute, off)

\* A range, or the failure to resolve one.
DateRange(startDate, endDate) == [kind |-> "range", startDate |-> startDate, endDate |-> endDate]

InvalidArgument == [kind |-> "InvalidArgument"]

getDateRangeForPeriod(period, t, off) ==
    IF period = "month" THEN DateRange(startOfMonth(t, off), endOfMonth(t, off))
    ELSE IF period = "quarter" THEN DateRange(startOfQuarter(t, off), endOfQuarter(t, off))
    ELSE IF period = "year" THEN DateRange(startOfYear(t, off), endOfYear(t, off))
    ELSE DateRange(t, t)

(***************************************************************************)
(* DateRangePicker, with the dateRange its parent page holds.              *)
(***************************************************************************)
presetOptions == {"today", "week", "month", "lastMonth", "year", "allTime"}

NoPreset == ""

\* The switch of applyPreset; any other tag takes the default branch.
applyPreset(preset, now, off) ==
    LET ist == LocalDay(toIndianTime(now, off), off)
        istYear == YearOfDay(ist)
        istMonth0 == MonthOfDay(ist) - 1
    IN  IF preset = "week"
        THEN DateRange(SetDateMinus(startOfDayIST(now, off), 7, off), endOfDayIST(now, off))
        ELSE IF preset = "month"
        THEN DateRange(startOfMonthIST(now, off), endOfDayIST(now, off))
        ELSE IF preset = "lastMonth"
        THEN DateRange(NewLocalDate(istYear, istMonth0 - 1, 1, 0, off),
                       NewLocalDate(istYear, istMonth0, 0, EndOfDayMinute, off))
        ELSE IF preset = "year"
        THEN DateRange(NewLocalDate(istYear, 0, 1, 0, off), endOfDayIST(now, off))
        ELSE IF preset = "allTime"
        THEN DateRange(NewLocalDate(FirstYear, 0, 1, 0, off), endOfDayIST(now, off))
        ELSE DateRange(startOfDayIST(now, off), endOfDayIST(now, off))

\* new Date(year, month - 1, day, ...) of a 'YYYY-MM-DD' input value
DateOfInput(value, minute, off) ==
    NewLocalDate(value \div 10000, ((value \div 100) % 100) - 1, value % 100, minute, off)

NoResult == [kind |-> "none"]

PickerCall(fn, arg, result, handed) ==
    [fn |-> fn, arg |-> arg, result |-> result, handed |-> handed]

\* The Dashboard page mounts with this month so far as its range.
MountedPicker(now, off) ==
    [pc          |-> "mounted",
     now         |-> now,
     dateRange   |-> DateRange(startOfMonthIST(now, off), now),
     activePreset |-> NoPreset,
     isOpen      |-> FALSE,
     limitsKept  |-> TRUE,
     last        |-> PickerCall("none", "", NoResult, FALSE)]

OthersIdleForPicker ==
    UNCHANGED <<budgets, nextId, transactions, tz, apiOut, lookupFailed, overlapped,
                bm, list, summary, chart, search, form>>

\* The dates the page sends to the store for the range it holds.
SentStartDate(range, off) == formatDateForIST(range.startDate, off)
SentEndDate(range, off) == formatDateForIST(range.endDate, off)

ToggleOpen ==
    /\ picker.pc = "mounted"
    /\ picker' = [picker EXCEPT !.isOpen = ~picker.isOpen]
    /\ OthersIdleForPicker

ApplyPreset(preset) ==
    /\ picker.pc = "mounted"
    /\ picker.isOpen
    /\ LET range == applyPreset(preset, picker.now, tz)
       IN  picker' = [picker EXCEPT !.dateRange = range,
                                    !.activePreset = preset,
                                    !.isOpen = FALSE,
                                    !.last = PickerCall("applyPreset", preset, range, TRUE)]
    /\ OthersIdleForPicker

\* value is what the input hands over; within tells whether it respects the
\* input's max attribute, which the handler does not look at.
HandleStartDateChange(value) ==
    /\ picker.pc = "mounted"
    /\ picker.isOpen
    /\ IF value = NoDate
       THEN picker' = [picker EXCEPT
                !.last = PickerCall("handleStartDateChange", "", NoResult, FALSE)]
       ELSE LET range == DateRange(DateOfInput(value, 0, tz), picker.dateRange.endDate)
                within == value <= SentEndDate(picker.dateRange, tz)
            IN  picker' = [picker EXCEPT
                    !.dateRange = range,
                    !.activePreset = NoPreset,
                    !.limitsKept = picker.limitsKept /\ within,
                    !.last = PickerCall("handleStartDateChange", "", range, TRUE)]
    /\ OthersIdleForPicker

HandleEndDateChange(value) ==
    /\ picker.pc = "mounted"
    /\ picker.isOpen
    /\ IF value = NoDate
       THEN picker' = [picker EXCEPT
                !.last = PickerCall("handleEndDateChange", "", NoResult, FALSE)]
       ELSE LET range == DateRange(picker.dateRange.startDate,
                                   DateOfInput(value, EndOfDayMinute, tz))
                within == value >= SentStartDate(picker.dateRange, tz)
            IN  picker' = [picker EXCEPT
                    !.dateRange = range,
                    !.activePreset = NoPreset,
                    !.limitsKept = picker.limitsKept /\ within,
                    !.last = PickerCall("handleEndDateChange", "", range, TRUE)]
    /\ OthersIdleForPicker

\* A page resolving a period tag through the utility.
GetDateRangeForPeriod(period) ==
    /\ picker.pc = "mounted"
    /\ picker' = [picker EXCEPT
            !.last = PickerCall("getDateRangeForPeriod", period,
                                getDateRangeForPeriod(period, picker.now, tz), FALSE)]
    /\ OthersIdleForPicker

(***************************************************************************)
(* The store client's operations on transactions, each issued by a page    *)
(* on behalf of the signed-in user `by`.                                   *)
(***************************************************************************)
RowsWithId(tbl, id) == { i \in 1..Len(tbl) : tbl[i].id = id }

\* .update(transaction).eq('id', id): the rows selected, rewritten
UpdatedTable(tbl, id, amount) ==
    [i \in 1..Len(tbl) |-> IF tbl[i].id = id THEN [tbl[i] EXCEPT !.amount = amount] ELSE tbl[i]]

\* .delete().eq('id', id): the table without the rows selected
DeletedTable(tbl, id) == SelectSeq(tbl, LAMBDA r : r.id # id)

\* .select().single() on the rows an update touched
SingleRow(tbl, rows) ==
    IF Cardinality(rows) = 1
    THEN [error |-> "", data |-> <<tbl[CHOOSE i \in rows : TRUE]>>]
    ELSE [error |-> "PGRST116", data |-> <<>>]

StoreCall(fn, by, id, type, startDate, endDate, error, data) ==
    [fn |-> fn, by |-> by, id |-> id, type |-> type, startDate |-> startDate,
     endDate |-> endDate, error |-> error, data |-> data]

OthersIdleForStore ==
    UNCHANGED <<budgets, tz, lookupFailed, overlapped, bm, list, summary, chart, picker, search, form>>

StoreGetTransactions(by, type, startDate, endDate) ==
    /\ \E failed \in BOOLEAN :
          IF failed
          THEN apiOut' = StoreCall("getTransactions", by, 0, type, startDate, endDate, "OTHER", <<>>)
          ELSE \E data \in getTransactions(transactions, by, type, startDate, endDate) :
                  apiOut' = StoreCall("getTransactions", by, 0, type, startDate, endDate, "", data)
    /\ UNCHANGED <<transactions, nextId>>
    /\ OthersIdleForStore

AddTransaction(by, type, amount, date) ==
    /\ nextId <= MaxTx + 1
    /\ LET row == [id |-> nextId, user_id |-> by, amount |-> amount, source |-> <<"r">>,
                   investment_name |-> <<>>, tags |-> <<>>, date |-> date, type |-> type]
       IN  /\ transactions' = Append(transactions, row)
           /\ apiOut' = StoreCall("addTransaction", by, nextId, NoType, NoDate, NoDate, "", <<row>>)
    /\ nextId' = nextId + 1
    /\ OthersIdleForStore

UpdateTransaction(by, id, amount) ==
    /\ transactions' = UpdatedTable(transactions, id, amount)
    /\ LET r == SingleRow(transactions', RowsWithId(transactions, id))
       IN  apiOut' = StoreCall("updateTransaction", by, id, NoType, NoDate, NoDate, r.error, r.data)
    /\ UNCHANGED nextId
    /\ OthersIdleForStore

DeleteTransaction(by, id) ==
    /\ transactions' = DeletedTable(transactions, id)
    /\ apiOut' = StoreCall("deleteTransaction", by, id, NoType, NoDate, NoDate, "", <<>>)
    /\ UNCHANGED nextId
    /\ OthersIdleForStore

(***************************************************************************)
(* SearchBar: the debounced search text. Time passes in ticks; the delay   *)
(* of 300 ms is DebounceTicks ticks.                                       *)
(***************************************************************************)
DebounceTicks == 3

\* setTimeout(() => onSearch(searchTerm), 300): the callback closes over the
\* text of the render that started it
Timer(searchTerm) == [text |-> searchTerm, remaining |-> DebounceTicks]

\* An effect that starts a timer without clearing the one before.
debounceEffectWithoutCleanup(timers, searchTerm) == Append(timers, Timer(searchTerm))

\* The effect on [searchTerm, onSearch]: the cleanup of the previous run
\* clears its timer, then the new run starts one.
debounceEffect(timers, searchTerm) == << Timer(searchTerm) >>

NoSearch == [by |-> "none", text |-> <<>>]

\* the first render, with its effect run
MountedSearchBar ==
    [pc          |-> "mounted",
     searchTerm  |-> <<>>,
     timers      |-> debounceEffect(<<>>, <<>>),
     unchangedFor |-> 0,
     cancelled   |-> FALSE,
     last        |-> NoSearch]

OthersIdleForSearch ==
    UNCHANGED <<budgets, nextId, transactions, tz, apiOut, lookupFailed, overlapped,
                bm, list, summary, chart, picker, form>>

\* onChange: setSearchTerm(e.target.value), the render and its effect
SetSearchTerm(value) ==
    /\ search.pc = "mounted"
    /\ value # search.searchTerm
    /\ search' = [search EXCEPT
            !.searchTerm = value,
            !.timers = debounceEffect(search.timers, value),
            !.unchangedFor = 0,
            !.cancelled = search.cancelled \/ search.timers # <<>>]
    /\ OthersIdleForSearch

\* the clear button, shown while the text is not empty
ClearSearch ==
    /\ search.pc = "mounted"
    /\ search.searchTerm # <<>>
    /\ search' = [search EXCEPT
            !.searchTerm = <<>>,
            !.timers = debounceEffect(search.timers, <<>>),
            !.unchangedFor = 0,
            !.cancelled = search.cancelled \/ search.timers # <<>>,
            !.last = [by |-> "clear", text |-> <<>>]]
    /\ OthersIdleForSearch

\* time passes
SearchTick ==
    /\ search.pc = "mounted"
    /\ \/ search.unchangedFor < DebounceTicks
       \/ \E i \in 1..Len(search.timers) : search.timers[i].remaining > 0
    /\ search' = [search EXCEPT
            !.timers = [i \in 1..Len(search.timers) |->
                           [search.timers[i] EXCEPT !.remaining = Max(0, @ - 1)]],
            !.unchangedFor = Min(DebounceTicks, @ + 1)]
    /\ OthersIdleForSearch

\* a timer whose delay has run out calls onSearch with its text
TimerFires ==
    /\ search.pc = "mounted"
    /\ \E i \in 1..Len(search.timers) :
          /\ search.timers[i].remaining = 0
          /\ search' = [search EXCEPT
                  !.timers = SubSeq(search.timers, 1, i - 1)
                                 \o SubSeq(search.timers, i + 1, Len(search.timers)),
                  !.last = [by |-> "timer", text |-> search.timers[i].text]]
    /\ OthersIdleForSearch

(***************************************************************************)
(* TransactionForm and TransactionEditModal: the schema and the submit.    *)
(***************************************************************************)
\* What the amount field holds: nothing, the digits of a number, or other text.
EmptyInput == [kind |-> "empty", value |-> 0]
NumberInput(v) == [kind |-> "number", value |-> v]
TextInput == [kind |-> "text", value |-> 0]

\* z.coerce: Number(input); Number('') is 0, Number of other text is NaN
coerceNumber(input) ==
    IF input.kind = "number" THEN [nan |-> FALSE, value |-> input.value]
    ELSE IF input.kind = "empty" THEN [nan |-> FALSE, value |-> 0]
    ELSE [nan |-> TRUE, value |-> 0]

\* z.number() refuses NaN
positive(n) == ~n.nan /\ n.value > 0

\* A schema with .nonnegative() in place of .positive().
transactionSchemaNonnegative(data) ==
    /\ LET n == coerceNumber(data.amount) IN ~n.nan /\ n.value >= 0
    /\ data.date # NoDate
    /\ data.type \in TxTypes
    /\ ~(data.type # "investment" /\ data.source = <<>>)
    /\ ~(data.type = "investment" /\ data.investment_name = <<>>)

\* transactionSchema with its refinement; the same in the form and the dialog
transactionSchema(data) ==
    /\ positive(coerceNumber(data.amount))
    /\ data.date # NoDate
    /\ data.type \in TxTypes
    /\ ~(data.type # "investment" /\ data.source = <<>>)
    /\ ~(data.type = "investment" /\ data.investment_name = <<>>)

FormData(amount, source, investment_name, date, type) ==
    [amount |-> amount, source |-> source, investment_name |-> investment_name,
     date |-> date, type |-> type]

\* the row TransactionForm.onSubmit hands to addTransaction
NewTransaction(id, userId, data) ==
    [id |-> id, user_id |-> userId, amount |-> coerceNumber(data.amount).value,
     source |-> IF data.type # "investment" THEN data.source ELSE <<>>,
     investment_name |-> IF data.type = "investment" THEN data.investment_name ELSE <<>>,
     tags |-> <<>>, date |-> data.date, type |-> data.type]

\* the row after updateTransaction(transaction.id, updatedTransaction)
EditedTransaction(row, data) ==
    [row EXCEPT !.amount = coerceNumber(data.amount).value,
                !.date = data.date,
                !.type = data.type,
                !.source = IF data.type # "investment" THEN data.source ELSE <<>>,
                !.investment_name =
                    IF data.type = "investment" THEN data.investment_name ELSE @]

Submission(fn, id, data, called, error) ==
    [fn |-> fn, id |-> id, data |-> data, called |-> called, error |-> error]

OthersIdleForForm ==
    UNCHANGED <<budgets, tz, apiOut, lookupFailed, overlapped, bm, list, summary, chart,
                picker, search>>

\* handleSubmit(onSubmit) of TransactionForm: the resolver first, then onSubmit
SubmitTransactionForm(userId, data) ==
    /\ nextId <= MaxInserts
    /\ IF ~transactionSchema(data)
       THEN /\ form' = Submission("TransactionForm", 0, data, FALSE, "invalid")
            /\ UNCHANGED <<transactions, nextId>>
       ELSE \E failed \in BOOLEAN :
               IF failed
               THEN /\ form' = Submission("TransactionForm", 0, data, TRUE, "failed")
                    /\ UNCHANGED <<transactions, nextId>>
               ELSE /\ transactions' = Append(transactions, NewTransaction(nextId, userId, data))
                    /\ nextId' = nextId + 1
                    /\ form' = Submission("TransactionForm", nextId, data, TRUE, "")
    /\ OthersIdleForForm

\* handleSubmit(onSubmit) of TransactionEditModal, open on the row i
SubmitTransactionEditModal(i, data) ==
    /\ i \in 1..Len(transactions)
    /\ IF ~transactionSchema(data)
       THEN /\ form' = Submission("TransactionEditModal", transactions[i].id, data, FALSE, "invalid")
            /\ UNCHANGED transactions
       ELSE \E failed \in BOOLEAN :
               IF failed
               THEN /\ form' = Submission("TransactionEditModal", transactions[i].id, data,
                                          TRUE, "failed")
                    /\ UNCHANGED transactions
               ELSE /\ transactions' =
                           [j \in 1..Len(transactions) |->
                               IF transactions[j].id = transactions[i].id
                               THEN EditedTransaction(transactions[j], data)
                               ELSE transactions[j]]
                    /\ form' = Submission("TransactionEditModal", transactions[i].id, data,
                                          TRUE, "")
    /\ UNCHANGED nextId
    /\ OthersIdleForForm

(***************************************************************************)
(* TopExpensesCard: the fetch effect and the five largest expenses.        *)
(***************************************************************************)
TopCount == 5

\* one row put into a sequence sorted by amount descending, after its equals
InsertByAmount(sorted, tr) ==
    LET n == Cardinality({ k \in 1..Len(sorted) : sorted[k].amount >= tr.amount })
    IN  SubSeq(sorted, 1, n) \o <<tr>> \o SubSeq(sorted, n + 1, Len(sorted))

\* transactions.sort((a, b) => b.amount - a.amount): a stable sort, done in
\* place, so the array fetched is the sorted one afterwards
RECURSIVE SortByAmount(_, _)
SortByAmount(sorted, txs) ==
    IF txs = <<>> THEN sorted
    ELSE SortByAmount(InsertByAmount(sorted, Head(txs)), Tail(txs))

Unknown == <<"U", "n", "k", "n", "o", "w", "n">>

\* the .map of fetchTopExpenses
TopEntry(tr) ==
    [id |-> tr.id, amount |-> tr.amount,
     source |-> IF tr.source # <<>> THEN tr.source ELSE Unknown,
     date |-> tr.date, tags |-> tr.tags]

sortedExpenses(txs) ==
    LET top == Slice(SortByAmount(<<>>, txs), TopCount)
    IN  [k \in 1..Len(top) |-> TopEntry(top[k])]

\* answer is what the store returned, fetched the same array once
\* fetchTopExpenses is done with it
MountedTopExpensesCard(u, startDate, endDate) ==
    [ fn |-> "TopExpensesCard", user |-> u, startDate |-> startDate, endDate |-> endDate,
      topExpenses |-> <<>>, loading |-> TRUE, error |-> FALSE,
      answer |-> <<>>, fetched |-> <<>> ]

\* fetchTopExpenses, to its end
FetchTopExpenses ==
    /\ chart.fn = "TopExpensesCard"
    /\ chart.loading
    /\ \E failed \in BOOLEAN :
         IF failed
         THEN chart' = [chart EXCEPT !.error = TRUE, !.loading = FALSE]
         ELSE LET both == chart.startDate # NoDate /\ chart.endDate # NoDate
              IN  \E data \in getTransactions(transactions, chart.user, "expense",
                                 IF both THEN chart.startDate ELSE FirstDayOfMonthISO(Now, tz),
                                 IF both THEN chart.endDate ELSE ISODate(Now)) :
                    chart' = [chart EXCEPT
                                !.topExpenses = sortedExpenses(data),
                                !.answer = data,
                                !.fetched = SortByAmount(<<>>, data),
                                !.error = FALSE, !.loading = FALSE]
    /\ OthersIdleForChart

\* the page passes another date range; the effect runs again
SetTopExpensesRange(startDate, endDate) ==
    /\ chart.fn = "TopExpensesCard"
    /\ <<startDate, endDate>> # <<chart.startDate, chart.endDate>>
    /\ chart' = [chart EXCEPT !.startDate = startDate, !.endDate = endDate, !.loading = TRUE]
    /\ OthersIdleForChart

(***************************************************************************)
(* BreakdownChart and TrendChart with their fetches in flight: the effect  *)
(* starts a fetch on every change of its dependencies and has no cleanup.  *)
(***************************************************************************)
\* what a run of the effect closes over
Request(c) ==
    [selectedType |-> c.selectedType, period |-> c.period,
     startDate |-> c.startDate, endDate |-> c.endDate]

NoRequest == [selectedType |-> "none", period |-> "", startDate |-> NoDate, endDate |-> NoDate]

\* the effect: setLoading(true) and a request on its way
StartFetch(c) == [c EXCEPT !.loading = TRUE, !.inflight = Append(@, Request(c))]

\* the component with the requests in flight, oldest first, and the request
\* whose answer was drawn last
WithFetchesInFlight(c) ==
    StartFetch(c @@ [period |-> "6m", inflight |-> <<>>, shownFor |-> NoRequest])

\* what the answer of a request can make the chart hold
ChartDataFor(c, request, tbl, off) ==
    IF c.fn = "BreakdownChart"
    THEN { [categoryData |-> CategoryData(data, request.selectedType)] :
             data \in getTransactions(tbl, c.user, NoType,
                                      ChartStartDate(request, off), ChartEndDate(request)) }
    ELSE UNION { { [labels |-> labels,
                    data |-> [k \in 1..Len(labels) |->
                                 MonthValue(txs, labels[k], request.selectedType)]] :
                     labels \in TrendChartLabels(txs) } :
                 txs \in getTransactions(tbl, c.user, NoType,
                                         TrendStartDate(request, off), TrendEndDate(request)) }

\* A completion that is dropped when its request is no longer the current one.
setChartDataUnlessStale(c, request, shown) ==
    IF request # Request(c) THEN c
    ELSE IF c.fn = "BreakdownChart"
    THEN [c EXCEPT !.categoryData = shown.categoryData, !.shownFor = request,
                   !.error = FALSE, !.loading = FALSE]
    ELSE [c EXCEPT !.labels = shown.labels, !.data = shown.data, !.shownFor = request,
                   !.error = FALSE, !.loading = FALSE]

\* setChartData, setError(null) and setLoading(false) of a fetch that returned
setChartData(c, request, shown) ==
    IF c.fn = "BreakdownChart"
    THEN [c EXCEPT !.categoryData = shown.categoryData, !.shownFor = request,
                   !.error = FALSE, !.loading = FALSE]
    ELSE [c EXCEPT !.labels = shown.labels, !.data = shown.data, !.shownFor = request,
                   !.error = FALSE, !.loading = FALSE]

WithoutRequest(inflight, i) == SubSeq(inflight, 1, i - 1) \o SubSeq(inflight, i + 1, Len(inflight))

InFlight(c) == "inflight" \in DOMAIN c

\* any of the requests in flight returns, in any order
FetchReturns(i) ==
    /\ InFlight(chart)
    /\ i \in 1..Len(chart.inflight)
    /\ LET request == chart.inflight[i]
           rest == [chart EXCEPT !.inflight = WithoutRequest(@, i)]
       IN  \E failed \in BOOLEAN :
             IF failed
             THEN chart' = [rest EXCEPT !.error = TRUE, !.loading = FALSE]
             ELSE \E shown \in ChartDataFor(chart, request, transactions, tz) :
                     chart' = setChartData(rest, request, shown)
    /\ OthersIdleForChart

\* the dropdown, drawn when the component is neither loading nor in error
ChangeSelectedType(type) ==
    /\ InFlight(chart)
    /\ ~chart.loading /\ ~chart.error
    /\ type # chart.selectedType
    /\ Len(chart.inflight) < MaxInFlight
    /\ chart' = StartFetch([chart EXCEPT !.selectedType = type])
    /\ OthersIdleForChart

\* the period buttons of TrendChart, drawn with the dropdown when the page
\* gives no date range
ChangePeriod(p) ==
    /\ InFlight(chart)
    /\ chart.fn = "TrendChart"
    /\ chart.startDate = NoDate /\ chart.endDate = NoDate
    /\ ~chart.loading /\ ~chart.error
    /\ p # chart.period
    /\ Len(chart.inflight) < MaxInFlight
    /\ chart' = StartFetch([chart EXCEPT !.period = p])
    /\ OthersIdleForChart

\* the page passes another date range, at any time
ChangeChartRange(startDate, endDate) ==
    /\ InFlight(chart)
    /\ <<startDate, endDate>> # <<chart.startDate, chart.endDate>>
    /\ Len(chart.inflight) < MaxInFlight
    /\ chart' = StartFetch([chart EXCEPT !.startDate = startDate, !.endDate = endDate])
    /\ OthersIdleForChart

(***************************************************************************)
(* SavingsChart with a period of its own (charts/SavingsChart.tsx).        *)
(***************************************************************************)
\* one entry per month of the period, oldest first, holding the savings of
\* the transactions of that month; a transaction of no such month is left out
MonthlySavings(txs, n, t, off) ==
    [k \in 1..n |->
        LET key == MonthKeyOf(subMonths(t, n - k, off), off)
        IN  [label |-> key, value |-> Totals(InMonth(txs, key)).savings]]

MountedSavingsChart(u) ==
    [ fn |-> "SavingsChartOfPeriod", user |-> u, period |-> "6m", trendData |-> <<>>,
      loading |-> TRUE, error |-> FALSE, fetched |-> <<>> ]

\* fetchChartData of SavingsChart, to its end
SavingsFetchChartData ==
    /\ chart.fn = "SavingsChartOfPeriod"
    /\ chart.loading
    /\ \E failed \in BOOLEAN :
         IF failed
         THEN chart' = [chart EXCEPT !.error = TRUE, !.loading = FALSE]
         ELSE LET n == monthsToLookBack(chart.period)
              IN  \E data \in getTransactions(transactions, chart.user, NoType,
                                              ISODate(subMonths(Now, n, tz)), ISODate(Now)) :
                    chart' = [chart EXCEPT
                                !.trendData = MonthlySavings(data, n, Now, tz),
                                !.fetched = data,
                                !.error = FALSE, !.loading = FALSE]
    /\ OthersIdleForChart

\* the period buttons; the effect runs again on a change
SetSavingsPeriod(p) ==
    /\ chart.fn = "SavingsChartOfPeriod"
    /\ ~chart.loading /\ ~chart.error
    /\ p # chart.period
    /\ chart' = [chart EXCEPT !.period = p, !.loading = TRUE]
    /\ OthersIdleForChart

(***************************************************************************)
(* TransactionList: the pages.  A render takes the props as the parent     *)
(* gives them; tagFilters = [] in the parameter list makes a new array on  *)
(* every render in which the parent leaves the prop out.                   *)
(***************************************************************************)
\* Math.ceil(filteredTransactions.length / itemsPerPage)
totalPages(c) == (Len(c.filteredTransactions) + (c.itemsPerPage - 1)) \div c.itemsPerPage

\* The list with its fetch done.  tagFiltersRef tells the arrays apart that
\* the renders saw as tagFilters, deps is what the reset-page effect ran with
\* last, shownPage the currentPage of the last render, stale that a change
\* of state or props awaits its render, chosenPage the page of a
\* handlePageChange that no change of search text, tag filter or page size
\* followed (0 when there is none).
WithPages(c, passesTagFilters, limit) ==
    c @@ [ passesTagFilters |-> passesTagFilters, tagFiltersRef |-> 1,
           deps |-> <<c.searchQuery, 1>>,
           currentPage |-> 1, itemsPerPage |-> limit, shownPage |-> 1,
           stale |-> FALSE, chosenPage |-> 0 ]

HasPages(c) == "currentPage" \in DOMAIN c

\* another array than the one the last render saw
FreshRef(ref) == (ref % MaxRefs) + 1

\* useEffect(() => { setCurrentPage(1); }, [searchQuery, tagFilters]) after a
\* render that saw the array ref as tagFilters: the dependencies are compared
\* with Object.is, and a setCurrentPage that changes nothing asks no render
resetPageEffect(c, ref) ==
    IF c.deps = <<c.searchQuery, ref>>
    THEN [c EXCEPT !.tagFiltersRef = ref, !.stale = FALSE]
    ELSE [c EXCEPT !.tagFiltersRef = ref, !.deps = <<c.searchQuery, ref>>,
                   !.currentPage = 1, !.stale = (c.currentPage # 1)]

\* a render and the effects after it
Render ==
    /\ HasPages(list)
    /\ list.stale
    /\ LET ref == IF list.passesTagFilters THEN list.tagFiltersRef
                  ELSE FreshRef(list.tagFiltersRef)
       IN  list' = resetPageEffect(Rendered([list EXCEPT !.shownPage = list.currentPage]), ref)
    /\ OthersIdleForList

\* the buttons to the previous and the next page
HandlePageChange(page) ==
    /\ HasPages(list)
    /\ ~list.stale
    /\ page \in {list.currentPage - 1, list.currentPage + 1}
    /\ 1 <= page /\ page <= totalPages(list)
    /\ list' = [list EXCEPT !.currentPage = page, !.chosenPage = page, !.stale = TRUE]
    /\ OthersIdleForList

\* the rows-per-page select
HandleItemsPerPageChange(n) ==
    /\ HasPages(list)
    /\ ~list.stale
    /\ n # list.itemsPerPage
    /\ list' = [list EXCEPT !.itemsPerPage = n, !.currentPage = 1, !.chosenPage = 0,
                            !.stale = TRUE]
    /\ OthersIdleForList

\* the page passes another search text
PassSearchQuery(q) ==
    /\ HasPages(list)
    /\ ~list.stale
    /\ q # list.searchQuery
    /\ list' = [list EXCEPT !.searchQuery = q, !.chosenPage = 0, !.stale = TRUE]
    /\ OthersIdleForList

\* the page passes another selection of tags, a new array of its state
PassTagFilters(tags) ==
    /\ HasPages(list)
    /\ ~list.stale
    /\ list.passesTagFilters
    /\ tags # list.tagFilters
    /\ list' = [list EXCEPT !.tagFilters = tags, !.tagFiltersRef = FreshRef(@),
                            !.chosenPage = 0, !.stale = TRUE]
    /\ OthersIdleForList

\* the page renders again with the props it gave before
ParentRenders ==
    /\ HasPages(list)
    /\ ~list.stale
    /\ list' = [list EXCEPT !.stale = TRUE]
    /\ OthersIdleForList

(***************************************************************************)
(* TransactionList: handleDelete under a page that keys the list by its    *)
(* refreshKey and passes refreshData as onUpdateList, as every page does.  *)
(***************************************************************************)
NoAnswer == [state |-> "none", data |-> <<>>]

\* The list as the page mounts it under refreshKey, its fetch on the way.
\* deleting holds the calls of deleteTransaction that have not returned,
\* each with the lists its handleDelete closed over and the key of the list
\* it was clicked in; deleted holds the calls that succeeded.
KeyedList(refreshKey, deleting, deleted) ==
    MountedList("u1", NoType, NoDate, NoDate) @@
        [ refreshKey |-> refreshKey, answer |-> NoAnswer,
          deleting |-> deleting, deleted |-> deleted ]

IsKeyed(c) == "refreshKey" \in DOMAIN c

\* list.filter(transaction => transaction.id !== id)
WithoutId(rows, id) == SelectSeq(rows, LAMBDA r : r.id # id)

\* refreshData: setRefreshKey(prev => prev + 1); the key of the list changes
\* and the page mounts a new list in place of this one
refreshData(c) == KeyedList(c.refreshKey + 1, c.deleting, c.deleted)

\* A handleDelete that ends after its two setters.
handleDeleteReturnedWithoutUpdate(c, call) ==
    Rendered([c EXCEPT !.allTransactions = WithoutId(call.allTransactions, call.id),
                       !.transactions = WithoutId(call.transactions, call.id)])

\* handleDelete after its await: the setters filter the lists of the render
\* the handler was made in (they do nothing once that list is unmounted),
\* then onUpdateList()
handleDeleteReturned(c, call) ==
    refreshData(IF call.refreshKey = c.refreshKey
                THEN Rendered([c EXCEPT
                        !.allTransactions = WithoutId(call.allTransactions, call.id),
                        !.transactions = WithoutId(call.transactions, call.id)])
                ELSE c)

\* the rows the list draws
RowsShown(c) == ListView(c).rows

\* the delete button of a row, confirmed
HandleDelete(id) ==
    /\ IsKeyed(list)
    /\ \E k \in 1..Len(RowsShown(list)) : RowsShown(list)[k].id = id
    /\ \A k \in 1..Len(list.deleting) : list.deleting[k].id # id
    /\ Len(list.deleting) + Cardinality(list.deleted) < MaxDeletes
    /\ list' = [list EXCEPT !.deleting =
                  Append(@, [id |-> id, refreshKey |-> list.refreshKey, state |-> "sent",
                             allTransactions |-> list.allTransactions,
                             transactions |-> list.transactions])]
    /\ UNCHANGED transactions
    /\ UNCHANGED <<budgets, nextId, tz, apiOut, lookupFailed, overlapped, bm, summary, chart, picker, search, form>>

\* the store takes a delete, or refuses it
StoreDeletes(i) ==
    /\ IsKeyed(list)
    /\ i \in 1..Len(list.deleting)
    /\ list.deleting[i].state = "sent"
    /\ \E failed \in BOOLEAN :
         IF failed
         THEN /\ list' = [list EXCEPT !.deleting[i].state = "failed"]
              /\ UNCHANGED transactions
         ELSE /\ list' = [list EXCEPT !.deleting[i].state = "deleted"]
              /\ transactions' = DeletedTable(transactions, list.deleting[i].id)
    /\ UNCHANGED <<budgets, nextId, tz, apiOut, lookupFailed, overlapped, bm, summary, chart, picker, search, form>>

\* deleteTransaction returns to its handleDelete
DeleteReturns(i) ==
    /\ IsKeyed(list)
    /\ i \in 1..Len(list.deleting)
    /\ list.deleting[i].state # "sent"
    /\ LET call == list.deleting[i]
           rest == [list EXCEPT !.deleting = WithoutRequest(@, i)]
       IN  IF call.state = "failed"
           THEN list' = rest
           ELSE list' = handleDeleteReturned(
                            [rest EXCEPT !.deleted = @ \cup {[id |-> call.id,
                                                              refreshKey |-> call.refreshKey]}],
                            call)
    /\ OthersIdleForList

\* the store answers the fetch of the mounted list
StoreAnswersList ==
    /\ IsKeyed(list)
    /\ list.loading /\ list.answer = NoAnswer
    /\ \E failed \in BOOLEAN :
         IF failed
         THEN list' = [list EXCEPT !.answer = [state |-> "failed", data |-> <<>>]]
         ELSE \E data \in getTransactions(transactions, list.user, list.type,
                                          ListStartDate(list, tz), ListEndDate(list)) :
                list' = [list EXCEPT !.answer = [state |-> "fetched", data |-> data]]
    /\ OthersIdleForList

\* fetchTransactions after its await
ListFetchReturns ==
    /\ IsKeyed(list)
    /\ list.loading /\ list.answer # NoAnswer
    /\ list' = IF list.answer.state = "failed"
               THEN Rendered([list EXCEPT !.error = TRUE, !.loading = FALSE,
                                          !.answer = NoAnswer])
               ELSE Rendered([list EXCEPT !.allTransactions = list.answer.data,
                                          !.transactions = list.answer.data,
                                          !.error = FALSE, !.loading = FALSE,
                                          !.succeeded = TRUE, !.answer = NoAnswer])
    /\ OthersIdleForList

(***************************************************************************)
(* The components not under study in a specification: not mounted.         *)
(***************************************************************************)
ChartIdle == [fn |-> "none"]

PickerIdle == [pc |-> "unmounted"]

SearchIdle == [pc |-> "unmounted"]

FormIdle == [fn |-> "none"]

Tx(id, userId, type, amount, date, source, investment_name, tags) ==
    [id |-> id, user_id |-> userId, amount |-> amount, source |-> source,
     investment_name |-> investment_name, tags |-> tags, date |-> date, type |-> type]

\* All tables of at most MaxTx rows drawn from pool; a row's id is its position.
Tables(pool) ==
    UNION { { [i \in 1..n |-> [f[i] EXCEPT !.id = i]] : f \in [1..n -> pool] } : n \in 0..MaxTx }

\* Budget saves and reads: two BudgetManager tabs over an initially empty
\* budgets table.
BudgetInit ==
    /\ budgets = {}
    /\ nextId = 1
    /\ transactions = << Tx(1, "u1", "expense", 2, 20240301, <<"r">>, <<>>, <<>>) >>
    /\ tz = 330
    /\ apiOut = NoCall
    /\ lookupFailed = FALSE
    /\ overlapped = FALSE
    /\ bm \in { [t \in Tabs |-> MountedBudgetManager(IF t = "tabA" THEN "u1" ELSE u)] : u \in Users }
    /\ list = ListIdle
    /\ summary = SummaryIdle
    /\ chart = ChartIdle
    /\ picker = PickerIdle
    /\ search = SearchIdle
    /\ form = FormIdle

BudgetNext ==
    \/ \E t \in Tabs : FetchBudgetData(t)
    \/ \E t \in Tabs : HandleEdit(t)
    \/ \E t \in Tabs : HandleCancel(t)
    \/ \E t \in Tabs : \E limit \in 1..MaxSaveLimit : SubmitLookup(t, limit)
    \/ \E t \in Tabs : SubmitUpdate(t)
    \/ \E t \in Tabs : SubmitInsert(t)
    \/ \E t \in Tabs : SubmitRefresh(t)

SpecBudget == BudgetInit /\ [][BudgetNext]_vars

(***************************************************************************)
(* Properties of the budget store.                                         *)
(***************************************************************************)
AtMostOnePerKey(tbl) ==
    \A a, b \in tbl : (a.user_id = b.user_id /\ a.month = b.month) => a = b

Ids(tbl) == { b.id : b \in tbl }

\* The save of tab t returns in this step.
SaveReturns(t) == bm[t].pc = "looked" /\ bm'[t].pc = "written"

\* C1: after any sequence of non-overlapping createOrUpdateBudget calls the
\* budgets table holds at most one row per (user_id, month): a save for a key
\* that has a row changes only that row's monthly_limit and adds no row, and a
\* save for a key without a row adds exactly one.
C1_SequentialSavesUpsert ==
    [][ ~overlapped' =>
          /\ AtMostOnePerKey(budgets')
          /\ \A t \in Tabs : SaveReturns(t) =>
                LET before == BudgetRows(budgets, bm[t].user, bm[t].month)
                    after == BudgetRows(budgets', bm[t].user, bm[t].month)
                IN  /\ budgets \ before = budgets' \ after
                    /\ \A b \in after : b.monthly_limit = bm[t].formLimit
                    /\ IF before # {}
                       THEN Ids(after) = Ids(before)
                       ELSE Cardinality(after) = 1 ]_vars

\* C1 with every lookup request answered (no request failure): the statement
\* the code does meet.
C1_WhenLookupsAnswer ==
    [][ (~overlapped' /\ ~lookupFailed') =>
          /\ AtMostOnePerKey(budgets')
          /\ \A t \in Tabs : SaveReturns(t) =>
                LET before == BudgetRows(budgets, bm[t].user, bm[t].month)
                    after == BudgetRows(budgets', bm[t].user, bm[t].month)
                IN  /\ budgets \ before = budgets' \ after
                    /\ \A b \in after : b.monthly_limit = bm[t].formLimit
                    /\ IF before # {}
                       THEN Ids(after) = Ids(before)
                       ELSE Cardinality(after) = 1 ]_vars

NoSaveInFlight == \A t \in Tabs : bm[t].pc # "looked"

\* C2: when two createOrUpdateBudget calls for one (user_id, month) overlap,
\* each a lookup followed by a separate update or insert, the table still
\* holds at most one row for the key once both have completed (every lookup
\* request answered).
C2_OverlappingSavesKeepOneRecord ==
    (overlapped /\ ~lookupFailed /\ NoSaveInFlight) => AtMostOnePerKey(budgets)

\* C5: getBudgetStatus returns null exactly when the table holds no row for
\* the queried (user, month): never a status in place of a missing budget,
\* never null while a row of the key exists.
C5_NullIffNoBudget ==
    apiOut.status.kind \in {"null", "status"} =>
        (apiOut.status.kind = "null" <=> apiOut.rows = 0)

\* getBudget throws on a failed lookup.
C6_GetBudgetSignalsFailure ==
    (apiOut.budget.kind # "none" /\ apiOut.budgetFailed) => apiOut.budget.kind = "throw"

\* createOrUpdateBudget inserts no row after a failed lookup.
C6_NoInsertAfterFailedLookup ==
    \A t \in Tabs : (bm[t].pc = "looked" /\ bm[t].saveLookupFailed) => nextId' = nextId

\* BudgetManager does not show 'No budget set' after a failed lookup.
C6_NoBudgetViewOnlyWhenNoRow ==
    (apiOut.fn = "fetchBudgetData" /\ (apiOut.budgetFailed \/ apiOut.statusFailed))
        => BudgetManagerView(bm[apiOut.by]) # "no-budget"

\* C6: a budget lookup that fails for another reason than 'no row' is never
\* handled as 'no row': getBudget throws instead of returning null,
\* createOrUpdateBudget does not go on to insert a row, and BudgetManager
\* does not end in its 'No budget set' view.
C6_LookupFailureIsNotNotFound ==
    [][ /\ C6_GetBudgetSignalsFailure'
        /\ C6_NoInsertAfterFailedLookup
        /\ C6_NoBudgetViewOnlyWhenNoRow' ]_vars

\* The save's part of C6 alone.
C6_SaveAfterFailedLookup == [][C6_NoInsertAfterFailedLookup]_vars

(***************************************************************************)
(* The budget evaluator over a fixed store: reads of every budget a table  *)
(* of at most MaxLimit can hold against every table of transactions dated  *)
(* the first day of the month.  The monthly_limit column is numeric and    *)
(* not constrained by the store, so 0 is among the limits.                 *)
(***************************************************************************)
OwnerKinds == { <<"u1", "expense">>, <<"u1", "income">>, <<"u2", "expense">> }

StatusPool ==
    { Tx(0, k[1], k[2], a, CurrentMonth * 100 + 1, <<"r">>, <<>>, <<>>) :
        k \in OwnerKinds, a \in 1..MaxAmount }

UnmountedTabs == [t \in Tabs |-> MountedBudgetManager("u1")]

StatusInit ==
    /\ budgets \in {{}} \cup { {NewBudget(1, "u1", CurrentMonth, l)} : l \in 0..MaxLimit }
    /\ nextId = Cardinality(budgets) + 1
    /\ transactions \in Tables(StatusPool)
    /\ tz \in {0, 330}
    /\ apiOut = NoCall
    /\ lookupFailed = FALSE
    /\ overlapped = FALSE
    /\ bm = UnmountedTabs
    /\ list = ListIdle
    /\ summary = SummaryIdle
    /\ chart = ChartIdle
    /\ picker = PickerIdle
    /\ search = SearchIdle
    /\ form = FormIdle

StatusNext ==
    \/ \E u \in Users : GetBudget(u, CurrentMonth)
    \/ \E u \in Users : GetBudgetStatus(u, CurrentMonth)
    \/ \E u \in Users : GetMonthlyIncomeTotal(u, CurrentMonth)

SpecStatus == StatusInit /\ [][StatusNext]_vars

\* The month windows: every viewer timezone, transactions dated around the
\* first and the last day of each month of MonthKeys.
ProbeDates(month) ==
    LET y == month \div 100
        m == month % 100
        last == DaysInMonth(y, m)
        prev == IF m = 1 THEN (y - 1) * 100 + 12 ELSE month - 1
        next == IF m = 12 THEN (y + 1) * 100 + 1 ELSE month + 1
    IN  { prev * 100 + DaysInMonth(prev \div 100, prev % 100),
          month * 100 + 1, month * 100 + 2, month * 100 + last,
          next * 100 + 1 }

MonthPool(month) ==
    { Tx(0, k[1], k[2], 1, d, <<"r">>, <<>>, <<>>) :
        k \in OwnerKinds, d \in ProbeDates(month) }

MonthInit ==
    /\ budgets = { NewBudget(m % 100, "u1", m, MaxLimit) : m \in MonthKeys }
    /\ nextId = 13
    /\ \E m \in MonthKeys : transactions \in Tables(MonthPool(m))
    /\ tz \in TZOffsets
    /\ apiOut = NoCall
    /\ lookupFailed = FALSE
    /\ overlapped = FALSE
    /\ bm = UnmountedTabs
    /\ list = ListIdle
    /\ summary = SummaryIdle
    /\ chart = ChartIdle
    /\ picker = PickerIdle
    /\ search = SearchIdle
    /\ form = FormIdle

MonthNext ==
    \/ \E u \in Users, m \in MonthKeys : GetBudgetStatus(u, m)
    \/ \E u \in Users, m \in MonthKeys : GetMonthlyIncomeTotal(u, m)

SpecMonth == MonthInit /\ [][MonthNext]_vars

\* The transaction list: rows the forms can write, dated inside and outside
\* the default window, under the searches and tag selections of the page.
ListPool ==
    { Tx(0, "u1", "expense", 1, 20240310, <<"A", "b">>, <<>>, <<"x">>),
      Tx(0, "u1", "expense", 2, 20240305, <<"b">>, <<>>, <<>>),
      Tx(0, "u1", "investment", 3, 20240310, <<>>, <<"a", "B">>, <<"y">>),
      Tx(0, "u1", "income", 1, 20240312, <<"B", "a">>, <<>>, <<"x", "y">>),
      Tx(0, "u1", "expense", 2, 20240210, <<"a">>, <<"b">>, <<>>),
      Tx(0, "u2", "expense", 1, 20240310, <<"a">>, <<>>, <<"x">>) }

SearchQueries == { <<>>, <<"a">>, <<"B">>, <<"a", "b">> }

TagFilterChoices == { <<>>, <<"x">>, <<"y", "x">>, <<"z">> }

DateRanges == { <<NoDate, NoDate>>, <<20240201, 20240331>> }

ListInit ==
    /\ budgets = {}
    /\ nextId = 1
    /\ transactions \in Tables(ListPool)
    /\ tz \in {0, 330}
    /\ apiOut = NoCall
    /\ lookupFailed = FALSE
    /\ overlapped = FALSE
    /\ bm = UnmountedTabs
    /\ list \in { MountedList("u1", NoType, r[1], r[2]) : r \in DateRanges }
    /\ summary = SummaryIdle
    /\ chart = ChartIdle
    /\ picker = PickerIdle
    /\ search = SearchIdle
    /\ form = FormIdle

ListNext ==
    \/ FetchTransactions
    \/ \E q \in SearchQueries : SetSearchQuery(q)
    \/ \E f \in TagFilterChoices : SetTagFilters(f)

SpecList == ListInit /\ [][ListNext]_vars

\* The dashboard summary: rows of every kind, of the viewer and of another
\* user, of the current month and of the month before.
SummaryPool ==
    { Tx(0, "u1", ty, a, 20240310, <<"r">>, <<>>, <<>>) : ty \in TxTypes, a \in {1, MaxAmount} }
    \cup { Tx(0, "u1", "expense", MaxAmount, 20240210, <<"r">>, <<>>, <<>>),
           Tx(0, "u2", "income", MaxAmount, 20240310, <<"r">>, <<>>, <<>>) }

SummaryInit ==
    /\ budgets = {}
    /\ nextId = 1
    /\ transactions \in Tables(SummaryPool)
    /\ tz \in {-300, 330}
    /\ apiOut = NoCall
    /\ lookupFailed = FALSE
    /\ overlapped = FALSE
    /\ bm = UnmountedTabs
    /\ list = ListIdle
    /\ summary \in { MountedSummary("u1", r[1], r[2]) : r \in DateRanges }
    /\ chart = ChartIdle
    /\ picker = PickerIdle
    /\ search = SearchIdle
    /\ form = FormIdle

SummaryNext ==
    \/ FetchSummary
    \/ \E p \in {"month", "all"} : SetPeriod(p)

SpecSummary == SummaryInit /\ [][SummaryNext]_vars

(***************************************************************************)
(* Properties of the budget evaluator.                                     *)
(***************************************************************************)
RECURSIVE SumOver(_, _)
SumOver(S, amt) ==
    IF S = {} THEN 0
    ELSE LET i == CHOOSE x \in S : TRUE IN amt[i] + SumOver(S \ {i}, amt)

\* The budget row of the last read's key (the tables of SpecStatus hold one at most).
RowRead == CHOOSE b \in BudgetRows(budgets, apiOut.user, apiOut.month) : TRUE

\* C3: for every status getBudgetStatus returns, isOverBudget is true exactly
\* when percentage >= 100, isNearLimit exactly when 80 <= percentage < 100,
\* and the two flags are never both true.
C3_FlagsMatchPercentage ==
    apiOut.status.kind = "status" =>
        LET st == apiOut.status
            p == st.percentage
        IN  /\ p.den > 0
            /\ st.isOverBudget <=> (p.num >= 100 * p.den)
            /\ st.isNearLimit <=> (p.num >= 80 * p.den /\ p.num < 100 * p.den)
            /\ ~(st.isOverBudget /\ st.isNearLimit)

\* a status at exactly 80 percent, and one above 100, have been returned
C3_Witness ==
    /\ apiOut.status.kind = "status"
    /\ apiOut.status.isNearLimit
    /\ apiOut.status.percentage.num = 80 * apiOut.status.percentage.den

\* C4: for an existing budget getBudgetStatus returns percentage =
\* (currentExpenses / monthly_limit) * 100 when monthly_limit > 0 and 0
\* otherwise, and remainingBudget = monthly_limit - currentExpenses, negative
\* exactly when the expenses exceed the limit (1000 and 850 give 85 and 150;
\* 1000 and 1200 give 120 and -200).
C4_PercentageAndRemaining ==
    /\ apiOut.status.kind = "status" =>
        LET st == apiOut.status
            p == st.percentage
            L == RowRead.monthly_limit
            e == st.currentExpenses
        IN  /\ st.monthlyLimit = L
            /\ p.den > 0
            /\ IF L > 0 THEN p.num * L = e * 100 * p.den ELSE p.num = 0
            /\ st.remainingBudget = L - e
            /\ (st.remainingBudget < 0) <=> (e > L)
    /\ LET a == BudgetStatus(1000, 850)
           b == BudgetStatus(1000, 1200)
       IN  /\ a.percentage.num = 85 * a.percentage.den /\ a.remainingBudget = 150
           /\ b.percentage.num = 120 * b.percentage.den /\ b.remainingBudget = -200

\* a status whose expenses exceed a positive limit has been returned
C4_Witness ==
    /\ apiOut.status.kind = "status"
    /\ apiOut.status.monthlyLimit > 0
    /\ apiOut.status.currentExpenses > apiOut.status.monthlyLimit
    /\ apiOut.status.remainingBudget < 0

\* The rows of the user, of one kind, dated within the calendar month.
RowsOfMonth(tbl, userId, type, month) ==
    { i \in 1..Len(tbl) :
        /\ tbl[i].user_id = userId
        /\ tbl[i].type = type
        /\ tbl[i].date >= month * 100 + 1
        /\ tbl[i].date <= month * 100 + DaysInMonth(month \div 100, month % 100) }

\* C7: for every month key and every viewer timezone offset, currentExpenses
\* of getBudgetStatus is the sum of the user's expense transactions dated the
\* first through the last calendar day of the month, and getMonthlyIncomeTotal
\* the same sum over the income transactions.
C7_MonthWindowIsTheCalendarMonth ==
    /\ apiOut.status.kind = "status" =>
         apiOut.status.currentExpenses =
            SumOver(RowsOfMonth(transactions, apiOut.user, "expense", apiOut.month),
                    Amounts(transactions))
    /\ apiOut.income.kind = "return" =>
         apiOut.income.total =
            SumOver(RowsOfMonth(transactions, apiOut.user, "income", apiOut.month),
                    Amounts(transactions))

\* C7 for the viewers at or east of UTC: the statement the code does meet.
C7_EastOfUTC == tz >= 0 => C7_MonthWindowIsTheCalendarMonth

(***************************************************************************)
(* Properties of the transaction list's filtered view.                     *)
(***************************************************************************)
SameLetter(c, d) == c = d \/ {c, d} = {"a", "A"} \/ {c, d} = {"b", "B"}

ContainsIgnoringCase(text, q) ==
    \E k \in 0..(Len(text) - Len(q)) : \A j \in 1..Len(q) : SameLetter(text[k + j], q[j])

Label(tr) == IF tr.type = "investment" THEN tr.investment_name ELSE tr.source

TagSet(tags) == { tags[k] : k \in 1..Len(tags) }

Wanted(tr, q, f) ==
    /\ q = <<>> \/ ContainsIgnoringCase(Label(tr), q)
    /\ f = <<>> \/ TagSet(tr.tags) \cap TagSet(f) # {}

KeptIndices(c) ==
    { i \in 1..Len(c.allTransactions) : Wanted(c.allTransactions[i], c.searchQuery, c.tagFilters) }

\* C8: the filtered view holds exactly the fetched transactions whose source
\* (investment name for an investment) contains searchQuery ignoring case and
\* that carry at least one of tagFilters, an empty searchQuery or tagFilters
\* accepting every transaction; an untagged transaction is left out under a
\* non-empty tagFilters; the view keeps the order of the fetched list.
C8_FilteredViewIsExact ==
    LET all == list.allTransactions
        view == list.filteredTransactions
        kept == KeptIndices(list)
    IN  /\ Len(view) = Cardinality(kept)
        /\ \A i \in kept : view[Cardinality({h \in kept : h <= i})] = all[i]
        /\ \A i \in 1..Len(all) :
             (all[i].tags = <<>> /\ list.tagFilters # <<>>)
                => \A j \in 1..Len(view) : view[j] # all[i]

C8_Witness ==
    /\ Len(list.allTransactions) >= 2
    /\ list.searchQuery = <<"a", "b">>
    /\ list.tagFilters = <<"y", "x">>
    /\ Len(list.filteredTransactions) = 2
    /\ list.filteredTransactions[1].type = "expense"
    /\ list.filteredTransactions[2].type = "investment"

\* C9: with an empty searchQuery and an empty tagFilters the filtered view is
\* the fetched list, element for element; a change of the filters leaves the
\* fetched list as it was, which only a returning fetch replaces.
C9_EmptyFiltersAreIdentity ==
    [][ /\ (list'.searchQuery = <<>> /\ list'.tagFilters = <<>>)
            => list'.filteredTransactions = list'.allTransactions
        /\ (list'.searchQuery # list.searchQuery \/ list'.tagFilters # list.tagFilters)
            => list'.allTransactions = list.allTransactions
        /\ list'.allTransactions # list.allTransactions => list.loading ]_vars

C9_Witness ==
    /\ list.searchQuery = <<>>
    /\ list.tagFilters = <<>>
    /\ Len(list.allTransactions) = 2
    /\ list.filteredTransactions = list.allTransactions
    /\ list.allTransactions[1].tags = <<>>

(***************************************************************************)
(* Properties of the dashboard summary.                                    *)
(***************************************************************************)
IndicesOfType(data, type) == { i \in 1..Len(data) : data[i].type = type }

\* C10: income, expenses and investments are each the sum of the amounts of
\* the fetched transactions of that kind, the three together the sum of all
\* fetched amounts, and savings is income - (expenses + investments), below
\* zero when the outgoings exceed the income.
C10_TotalsAndSavings ==
    LET data == summary.fetched
        amt == Amounts(data)
        s == summary.summary
    IN  /\ s.income = SumOver(IndicesOfType(data, "income"), amt)
        /\ s.expenses = SumOver(IndicesOfType(data, "expense"), amt)
        /\ s.investments = SumOver(IndicesOfType(data, "investment"), amt)
        /\ s.income + s.expenses + s.investments = SumOver(1..Len(data), amt)
        /\ s.savings = s.income - (s.expenses + s.investments)

C10_Witness ==
    /\ ~summary.loading /\ ~summary.error
    /\ Len(summary.fetched) = 2
    /\ summary.summary.income > 0
    /\ summary.summary.savings < 0

(***************************************************************************)
(* The tag breakdown: rows of every kind, untagged, tagged once, twice,    *)
(* and with one tag written twice (the edit form splits its text at the    *)
(* commas and keeps repetitions).                                          *)
(***************************************************************************)
BreakdownPool ==
    { Tx(0, "u1", "expense", 1, 20240310, <<"r">>, <<>>, <<>>),
      Tx(0, "u1", "expense", MaxAmount, 20240311, <<"r">>, <<>>, <<"x">>),
      Tx(0, "u1", "expense", 1, 20240312, <<"r">>, <<>>, <<"x", "y">>),
      Tx(0, "u1", "expense", 1, 20240312, <<"r">>, <<>>, <<"x", "x">>),
      Tx(0, "u1", "income", MaxAmount, 20240310, <<"r">>, <<>>, <<>>),
      Tx(0, "u1", "income", 1, 20240310, <<"r">>, <<>>, <<"y">>),
      Tx(0, "u1", "investment", 1, 20240310, <<>>, <<"r">>, <<"x">>),
      Tx(0, "u2", "expense", 1, 20240310, <<"r">>, <<>>, <<"x">>) }

BreakdownInit ==
    /\ budgets = {}
    /\ nextId = 1
    /\ transactions \in Tables(BreakdownPool)
    /\ tz \in {0, 330}
    /\ apiOut = NoCall
    /\ lookupFailed = FALSE
    /\ overlapped = FALSE
    /\ bm = UnmountedTabs
    /\ list = ListIdle
    /\ summary = SummaryIdle
    /\ chart \in { MountedBreakdownChart("u1", r[1], r[2]) : r \in DateRanges }
    /\ picker = PickerIdle
    /\ search = SearchIdle
    /\ form = FormIdle

BreakdownNext ==
    \/ BreakdownFetchChartData
    \/ \E type \in DataTypes : SetSelectedType(type)

SpecBreakdown == BreakdownInit /\ [][BreakdownNext]_vars

(***************************************************************************)
(* Properties of the tag breakdown.                                        *)
(***************************************************************************)
Occurrences(tags, b) == Cardinality({ k \in 1..Len(tags) : tags[k] = b })

\* what one transaction owes to bucket b
ShareOf(tr, b) ==
    IF tr.tags = <<>>
    THEN IF b = "Uncategorized" THEN tr.amount ELSE 0
    ELSE tr.amount * Occurrences(tr.tags, b)

BucketNames == {"x", "y", "Uncategorized", "Total Savings", "No Savings"}

\* C11: in the tag breakdown of a kind every transaction of the kind adds
\* its full amount to the bucket of each tag it carries, to 'Uncategorized'
\* when it carries none, and to no other bucket; the buckets together hold
\* the sum of amount * max(1, number of tags) over the transactions of the
\* kind, and transactions of other kinds add nothing.
C11_BucketsPerTag ==
    (chart.fn = "BreakdownChart" /\ chart.fetchedType # "savings") =>
        LET data == chart.fetched
            kind == KindOf(chart.fetchedType)
            mine == IndicesOfType(data, kind)
            cd == chart.categoryData
            owed(b) == SumOver(mine, [i \in 1..Len(data) |-> ShareOf(data[i], b)])
        IN  /\ DOMAIN cd \subseteq BucketNames
            /\ \A b \in BucketNames :
                 IF owed(b) > 0 THEN b \in DOMAIN cd /\ cd[b] = owed(b)
                 ELSE b \notin DOMAIN cd
            /\ SumOver(DOMAIN cd, cd) =
                 SumOver(mine, [i \in 1..Len(data) |-> data[i].amount * Max(1, Len(data[i].tags))])

C11_Witness ==
    /\ chart.fn = "BreakdownChart"
    /\ ~chart.loading /\ ~chart.error
    /\ chart.fetchedType = "expenses"
    /\ Len(chart.fetched) = 2
    /\ \E i \in 1..2 : chart.fetched[i].type = "income"
    /\ \E i \in 1..2 : chart.fetched[i].tags = <<"x", "y">>
    /\ DOMAIN chart.categoryData = {"x", "y"}

(***************************************************************************)
(* The category ranking: up to MaxCategories expenses of categories of     *)
(* their own, one a day, and at choice one more expense of the first       *)
(* category.                                                               *)
(***************************************************************************)
MaxCategories == 12

CategoryName(i) == <<"c", i>>

CategoryAmount(i, shift) == 1 + ((i + shift) % MaxAmount)

CategoryTables ==
    { [i \in 1..(n + extra) |->
         IF i <= n
         THEN Tx(i, "u1", "expense", CategoryAmount(i, shift), 20240301 + i,
                 CategoryName(i), <<>>, <<>>)
         ELSE Tx(i, "u1", "expense", MaxAmount, 20240301, CategoryName(1), <<>>, <<>>)] :
        n \in 0..MaxCategories, shift \in 0..(MaxAmount - 1), extra \in 0..1 }

ExpensesInit ==
    /\ budgets = {}
    /\ nextId = 1
    /\ transactions \in CategoryTables
    /\ tz \in {0, 330}
    /\ apiOut = NoCall
    /\ lookupFailed = FALSE
    /\ overlapped = FALSE
    /\ bm = UnmountedTabs
    /\ list = ListIdle
    /\ summary = SummaryIdle
    /\ chart = MountedExpensesChart("u1")
    /\ picker = PickerIdle
    /\ search = SearchIdle
    /\ form = FormIdle

ExpensesNext ==
    \/ ExpensesFetchChartData
    \/ \E v \in {"category", "trend"} : SetViewType(v)
    \/ \E p \in Periods : SetChartPeriod(p)

SpecExpenses == ExpensesInit /\ [][ExpensesNext]_vars

(***************************************************************************)
(* Properties of the category ranking.                                     *)
(***************************************************************************)
CategoriesOf(data) == { data[i].source : i \in 1..Len(data) }

ValuesOf(entries) == [k \in 1..Len(entries) |-> entries[k].value]

Others == <<"Others">>

\* C12: the kept top categories and one 'Others' bucket holding the rest add
\* up to the total of the expenses of the window, and no 'Others' bucket is
\* shown when the categories are no more than the ranking keeps.
C12_TopPlusOthersIsTotal ==
    (chart.fn = "ExpensesChart" /\ chart.fetchedView = "category" /\ chart.viewType = "category"
        /\ ~chart.loading) =>
        LET data == chart.fetched
            shown == chart.categoryData
            many == Cardinality(CategoriesOf(data)) > TopCategories
        IN  /\ SumOver(1..Len(shown), ValuesOf(shown)) = SumOver(1..Len(data), Amounts(data))
            /\ (\E k \in 1..Len(shown) : shown[k].label = Others) <=> many

\* The ranking of at most TopCategories categories: the statement the code
\* does meet.
C12_UpToTopCategories ==
    (chart.fn = "ExpensesChart" /\ chart.fetchedView = "category" /\ chart.viewType = "category"
        /\ ~chart.loading /\ Cardinality(CategoriesOf(chart.fetched)) <= TopCategories) =>
        C12_TopPlusOthersIsTotal

(***************************************************************************)
(* The monthly series: transactions of December, January and March, none   *)
(* of February, under a parent's date range or the chart's own period.     *)
(***************************************************************************)
TrendPool ==
    { Tx(0, "u1", "income", 1, 20231220, <<"r">>, <<>>, <<>>),
      Tx(0, "u1", "income", MaxAmount, 20240120, <<"r">>, <<>>, <<>>),
      Tx(0, "u1", "income", 1, 20240310, <<"r">>, <<>>, <<>>),
      Tx(0, "u1", "expense", 1, 20240116, <<"r">>, <<>>, <<>>),
      Tx(0, "u1", "expense", MaxAmount, 20240305, <<"r">>, <<>>, <<>>),
      Tx(0, "u1", "investment", 1, 20240310, <<>>, <<"r">>, <<>>) }

TrendRanges == { <<NoDate, NoDate>>, <<20240115, 20240315>>, <<20240301, 20240331>> }

TrendInit ==
    /\ budgets = {}
    /\ nextId = 1
    /\ transactions \in Tables(TrendPool)
    /\ tz \in TZOffsets
    /\ apiOut = NoCall
    /\ lookupFailed = FALSE
    /\ overlapped = FALSE
    /\ bm = UnmountedTabs
    /\ list = ListIdle
    /\ summary = SummaryIdle
    /\ chart \in { MountedTrend(fn, "u1", r[1], r[2], x) :
                     fn \in TrendFns, r \in TrendRanges, x \in {FALSE} }
    /\ picker = PickerIdle
    /\ search = SearchIdle
    /\ form = FormIdle

TrendNext ==
    \/ TrendFetchChartData
    \/ \E p \in Periods : SetTrendPeriod(p)
    \/ \E type \in DataTypes : SetTrendType(type)

SpecTrend == TrendInit /\ [][TrendNext]_vars

(***************************************************************************)
(* Properties of the monthly series.                                       *)
(***************************************************************************)
\* the calendar months the window [start, end] touches
MonthsSpanned(start, end) ==
    { y * 100 + m : y \in (start \div 10000)..(end \div 10000), m \in 1..12 }
        \cap (MonthKeyOfDate(start))..(MonthKeyOfDate(end))

SeriesShown == chart.fn \in TrendFns /\ chart.fetchStart # NoDate /\ ~chart.loading

SeriesCoversWindow ==
    LET months == MonthsSpanned(chart.fetchStart, chart.fetchEnd)
    IN  /\ Len(chart.labels) = Cardinality(months)
        /\ SeqRange(chart.labels) = months
        /\ \A k \in 1..Len(chart.labels) :
             InMonth(chart.fetched, chart.labels[k]) = <<>> => chart.data[k] = 0

\* C13: for every window each monthly series (TrendChart, IncomeChart,
\* SavingsChart) shows one bucket per calendar month the window touches,
\* without gaps: a month of the window without transactions is shown with
\* the value zero.
C13_OneBucketPerMonthOfWindow == SeriesShown => SeriesCoversWindow

\* C13 for SavingsChart seen at or east of UTC: the statement the code does
\* meet.
C13_SavingsChartEastOfUTC ==
    (SeriesShown /\ chart.fn = "SavingsChart" /\ tz >= 0) => SeriesCoversWindow

\* C13 for SavingsChart in every timezone.
C13_SavingsChart == (SeriesShown /\ chart.fn = "SavingsChart") => SeriesCoversWindow

(***************************************************************************)
(* The heatmap: six days of March with day totals of 0..MaxDayAmount, the  *)
(* totals rising through the window, the last day's total at choice made   *)
(* of two expenses.                                                        *)
(***************************************************************************)
MaxDayAmount == 5

HeatmapDays == 6

DayTotals ==
    { a \in [1..HeatmapDays -> 0..MaxDayAmount] : \A i \in 1..(HeatmapDays - 1) : a[i] <= a[i + 1] }

HeatmapRows(a, split) ==
    LET whole == [i \in 1..HeatmapDays |->
                    Tx(i, "u1", "expense",
                       IF split /\ i = HeatmapDays /\ a[i] >= 2 THEN a[i] - 1 ELSE a[i],
                       20240300 + i, <<"r">>, <<>>, <<>>)]
        part == IF split /\ a[HeatmapDays] >= 2
                THEN << Tx(HeatmapDays + 1, "u1", "expense", 1, 20240300 + HeatmapDays,
                           <<"r">>, <<>>, <<>>) >>
                ELSE <<>>
    IN  SelectSeq(whole \o part, LAMBDA tr : tr.amount > 0)

HeatmapTables == { HeatmapRows(a, split) : a \in DayTotals, split \in BOOLEAN }

HeatmapRanges == { <<20240301, 20240300 + HeatmapDays>>, <<20240303, 20240300 + HeatmapDays>> }

HeatmapInit ==
    /\ budgets = {}
    /\ nextId = 1
    /\ transactions \in HeatmapTables
    /\ tz \in TZOffsets
    /\ apiOut = NoCall
    /\ lookupFailed = FALSE
    /\ overlapped = FALSE
    /\ bm = UnmountedTabs
    /\ list = ListIdle
    /\ summary = SummaryIdle
    /\ chart = MountedExpenseHeatmap("u1", 20240301, 20240300 + HeatmapDays)
    /\ picker = PickerIdle
    /\ search = SearchIdle
    /\ form = FormIdle

HeatmapNext ==
    \/ FetchHeatmapData
    \/ \E r \in HeatmapRanges : SetHeatmapRange(r[1], r[2])

SpecHeatmap == HeatmapInit /\ [][HeatmapNext]_vars

(***************************************************************************)
(* Properties of the heatmap levels.                                       *)
(***************************************************************************)
\* the levels of day totals, worked from the definition of the claim
LevelOf(amount, max) ==
    IF amount = 0 \/ max = 0 THEN 0
    ELSE IF 10 * amount <= 2 * max THEN 1
    ELSE IF 10 * amount <= 4 * max THEN 2
    ELSE IF 10 * amount <= 6 * max THEN 3
    ELSE IF 10 * amount <= 8 * max THEN 4
    ELSE 5

\* the expenses of the fetched answer that fall on the day of entry k
SpentOn(k) ==
    SumOver({ i \in 1..Len(chart.fetched) :
                LocalDayOfISO(chart.fetched[i].date, tz) = chart.heatmapData[k].day },
            Amounts(chart.fetched))

\* C14: the level of a day is 0 exactly when its expense total is 0; else,
\* max being the largest day total of the window, 1 up to a ratio of 0.2, 2
\* up to 0.4, 3 up to 0.6, 4 up to 0.8 and 5 above; so a day holding the
\* maximum has level 5, the level never falls as the amount grows, every
\* day is level 0 when max is 0, and [0,10,20,30,40,50] give [0,1,2,3,4,5].
C14_IntensityLevels ==
    (chart.fn = "ExpenseHeatmap" /\ ~chart.loading /\ ~chart.error) =>
        LET data == chart.heatmapData
            days == 1..Len(data)
            max == IF days = {} THEN 0 ELSE MaxAmountOf(data)
        IN  /\ Len(chart.levels) = Len(data)
            /\ \A k \in days :
                 /\ data[k].amount = SpentOn(k)
                 /\ chart.levels[k] = LevelOf(data[k].amount, max)
                 /\ chart.levels[k] = 0 <=> data[k].amount = 0
                 /\ (data[k].amount = max /\ max > 0) => chart.levels[k] = 5
                 /\ \A j \in days : data[j].amount <= data[k].amount
                                        => chart.levels[j] <= chart.levels[k]
            /\ [k \in 1..6 |->
                  getIntensityLevel((k - 1) * 10,
                                    [d \in 1..6 |-> [day |-> d, amount |-> (d - 1) * 10,
                                                     transactionCount |-> 1]])]
                 = <<0, 1, 2, 3, 4, 5>>

C14_Witness ==
    /\ chart.fn = "ExpenseHeatmap" /\ ~chart.loading /\ ~chart.error
    /\ Len(chart.heatmapData) = 6
    /\ chart.levels = <<0, 1, 2, 3, 4, 5>>
    /\ Len(chart.fetched) = 6


(***************************************************************************)
(* The date-range picker on the Dashboard, in three viewer timezones.      *)
(***************************************************************************)
\* 2024-03-15T12:00Z; 2024-02-29T20:00Z, already March in UTC+5:30;
\* 2023-12-31T20:00Z, already 2024 in UTC+5:30
PickerInstants ==
    {Now,
     (MakeDay(2024, 1, 29) * MinutesPerDay) + 1200,
     (MakeDay(2023, 11, 31) * MinutesPerDay) + 1200}

PickerValues == {NoDate, 20240228, 20240301, 20240315, 20240316}

PresetTags == presetOptions \cup {"custom"}

DefinedPeriods == {"month", "quarter", "year"}

PeriodTags == DefinedPeriods \cup {"decade"}

PickerInit ==
    /\ budgets = {}
    /\ nextId = 1
    /\ transactions = {}
    /\ tz \in TZOffsets
    /\ apiOut = NoCall
    /\ lookupFailed = FALSE
    /\ overlapped = FALSE
    /\ bm = UnmountedTabs
    /\ list = ListIdle
    /\ summary = SummaryIdle
    /\ chart = ChartIdle
    /\ search = SearchIdle
    /\ form = FormIdle
    /\ \E now \in PickerInstants : picker = MountedPicker(now, tz)

PickerNext ==
    \/ ToggleOpen
    \/ \E preset \in PresetTags : ApplyPreset(preset)
    \/ \E value \in PickerValues : HandleStartDateChange(value)
    \/ \E value \in PickerValues : HandleEndDateChange(value)
    \/ \E period \in PeriodTags : GetDateRangeForPeriod(period)

SpecPicker == PickerInit /\ [][PickerNext]_vars

(***************************************************************************)
(* Properties of the date range.                                           *)
(***************************************************************************)
\* the calendar date of an instant in UTC+5:30
ISTDate(t) == ISODate(t + IstOffset)

PresetApplied ==
    /\ picker.pc = "mounted"
    /\ picker.last.fn = "applyPreset"
    /\ picker.last.arg \in presetOptions

\* C15: for a fixed instant and a fixed preset, the start and end dates sent
\* to the store (formatDateForIST of the picker's boundaries) are the same
\* for every viewer timezone offset; for 'today' both are the calendar date
\* of the instant in UTC+5:30.
C15_SentDatesSameForEveryViewer ==
    PresetApplied =>
        /\ \A off \in TZOffsets :
               LET range == applyPreset(picker.last.arg, picker.now, off)
               IN  /\ SentStartDate(range, off) = SentStartDate(picker.dateRange, tz)
                   /\ SentEndDate(range, off) = SentEndDate(picker.dateRange, tz)
        /\ picker.last.arg = "today" =>
               /\ SentStartDate(picker.dateRange, tz) = ISTDate(picker.now)
               /\ SentEndDate(picker.dateRange, tz) = ISTDate(picker.now)

\* The part of C15 that holds: the start date sent after a preset is
\* the same for the viewers at UTC-5, UTC and UTC+5:30.
C15_SentStartDates ==
    PresetApplied =>
        /\ \A off \in TZOffsets :
               SentStartDate(applyPreset(picker.last.arg, picker.now, off), off)
                   = SentStartDate(picker.dateRange, tz)
        /\ picker.last.arg = "today" =>
               SentStartDate(picker.dateRange, tz) = ISTDate(picker.now)

\* The part of C15 that holds: a viewer whose own offset is UTC+5:30
\* sends today's date in UTC+5:30 as both dates of 'today'.
C15_ViewerInIST ==
    (PresetApplied /\ tz = IstOffset /\ picker.last.arg = "today") =>
        /\ SentStartDate(picker.dateRange, tz) = ISTDate(picker.now)
        /\ SentEndDate(picker.dateRange, tz) = ISTDate(picker.now)

\* C16: after any sequence of applyPreset, handleStartDateChange and
\* handleEndDateChange calls the range satisfies startDate <= endDate.
C16_StartNotAfterEnd ==
    (picker.pc = "mounted" /\ picker.last.handed) =>
        picker.dateRange.startDate <= picker.dateRange.endDate

\* C16 narrowed to the values the inputs' min and max attributes admit.
C16_WithinInputLimits ==
    (picker.pc = "mounted" /\ picker.last.handed /\ picker.limitsKept) =>
        picker.dateRange.startDate <= picker.dateRange.endDate

\* The part of C16 that holds: a preset leaves startDate <= endDate.
C16_PresetsKeepOrder ==
    (picker.pc = "mounted" /\ picker.last.fn = "applyPreset") =>
        picker.dateRange.startDate <= picker.dateRange.endDate

\* C17: resolving a tag that is not a defined preset yields InvalidArgument,
\* and no range is produced or handed to onDateRangeChange.
C17_UndefinedTagIsRefused ==
    /\ (picker.pc = "mounted" /\ picker.last.fn = "applyPreset"
            /\ picker.last.arg \notin presetOptions) =>
           (picker.last.result = InvalidArgument /\ ~picker.last.handed)
    /\ (picker.pc = "mounted" /\ picker.last.fn = "getDateRangeForPeriod"
            /\ picker.last.arg \notin DefinedPeriods) =>
           (picker.last.result = InvalidArgument /\ ~picker.last.handed)

\* C17 for the picker alone, and for the utility alone.
C17_ApplyPresetRefuses ==
    (picker.pc = "mounted" /\ picker.last.fn = "applyPreset"
        /\ picker.last.arg \notin presetOptions) =>
       picker.last.result = InvalidArgument

C17_GetDateRangeForPeriodRefuses ==
    (picker.pc = "mounted" /\ picker.last.fn = "getDateRangeForPeriod"
        /\ picker.last.arg \notin DefinedPeriods) =>
       picker.last.result = InvalidArgument

(***************************************************************************)
(* The store client used by two users.                                     *)
(***************************************************************************)
StorePool ==
    { Tx(0, "u1", "expense", 1, 20240310, <<"r">>, <<>>, <<>>),
      Tx(0, "u1", "income", 2, 20240305, <<"r">>, <<>>, <<>>),
      Tx(0, "u2", "expense", 1, 20240310, <<"r">>, <<>>, <<>>),
      Tx(0, "u2", "income", 2, 20240320, <<"r">>, <<>>, <<>>) }

StoreRanges == { <<NoDate, NoDate>>, <<20240305, 20240310>> }

StoreInit ==
    /\ budgets = {}
    /\ transactions \in Tables(StorePool)
    /\ nextId = Len(transactions) + 1
    /\ tz = 330
    /\ apiOut = NoCall
    /\ lookupFailed = FALSE
    /\ overlapped = FALSE
    /\ bm = UnmountedTabs
    /\ list = ListIdle
    /\ summary = SummaryIdle
    /\ chart = ChartIdle
    /\ picker = PickerIdle
    /\ search = SearchIdle
    /\ form = FormIdle

StoreNext ==
    \/ \E by \in Users, type \in {NoType, "expense"}, range \in StoreRanges :
          StoreGetTransactions(by, type, range[1], range[2])
    \/ \E by \in Users : AddTransaction(by, "expense", 1, 20240310)
    \/ \E by \in Users, id \in 1..(MaxTx + 1) : UpdateTransaction(by, id, MaxAmount)
    \/ \E by \in Users, id \in 1..(MaxTx + 1) : DeleteTransaction(by, id)

SpecStore == StoreInit /\ [][StoreNext]_vars

(***************************************************************************)
(* Properties of ownership.                                                *)
(***************************************************************************)
\* the records of the table that `by` does not own
OwnedByOthers(tbl, by) == SelectSeq(tbl, LAMBDA r : r.user_id # by)

\* the records a query on behalf of `by` is to return
Visible(r, by, type, startDate, endDate) ==
    /\ r.user_id = by
    /\ (type # NoType => r.type = type)
    /\ (startDate # NoDate => startDate <= r.date)
    /\ (endDate # NoDate => r.date <= endDate)

SeqSet(s) == { s[i] : i \in 1..Len(s) }

AnsweredQuery(call) == call.fn = "getTransactions" /\ call.error = ""

QueryIsScoped(tbl, call) ==
    /\ SeqSet(call.data) =
           { r \in SeqSet(tbl) : Visible(r, call.by, call.type, call.startDate, call.endDate) }
    /\ Len(call.data) = Cardinality(SeqSet(call.data))

\* C18: for distinct users A and B and any sequence of store-client
\* operations issued on behalf of A, getTransactions returns only A's
\* records (narrowed by kind and inclusive dates when given), and
\* updateTransaction and deleteTransaction never change or remove a record
\* owned by B.
C18_NoRecordCrossesUsers ==
    [][ /\ AnsweredQuery(apiOut') => QueryIsScoped(transactions, apiOut')
        /\ apiOut'.fn \in {"updateTransaction", "deleteTransaction"} =>
               OwnedByOthers(transactions', apiOut'.by) = OwnedByOthers(transactions, apiOut'.by)
      ]_vars

\* The part of C18 that holds: a query returns exactly the caller's
\* records that pass the filters given.
C18_QueriesAreScoped ==
    (apiOut.fn = "getTransactions" /\ apiOut.error = "") => QueryIsScoped(transactions, apiOut)

\* The part of C18 that fails: an update or a delete on behalf of one user
\* leaves the other users' records alone.
C18_WritesAreScoped ==
    [][ apiOut'.fn \in {"updateTransaction", "deleteTransaction"} =>
            OwnedByOthers(transactions', apiOut'.by) = OwnedByOthers(transactions, apiOut'.by)
      ]_vars

\* An update or delete of one's own record changes nothing of the others'.
C18_OwnWritesAreScoped ==
    [][ (/\ apiOut'.fn \in {"updateTransaction", "deleteTransaction"}
         /\ \A i \in RowsWithId(transactions, apiOut'.id) :
                transactions[i].user_id = apiOut'.by) =>
            OwnedByOthers(transactions', apiOut'.by) = OwnedByOthers(transactions, apiOut'.by)
      ]_vars

(***************************************************************************)
(* The search bar of a page, typed into over time.                         *)
(***************************************************************************)
SearchTexts == { <<>>, <<"a">>, <<"a", "b">>, <<"B">> }

SearchInit ==
    /\ budgets = {}
    /\ nextId = 1
    /\ transactions = <<>>
    /\ tz \in TZOffsets
    /\ apiOut = NoCall
    /\ lookupFailed = FALSE
    /\ overlapped = FALSE
    /\ bm = UnmountedTabs
    /\ list = ListIdle
    /\ summary = SummaryIdle
    /\ chart = ChartIdle
    /\ picker = PickerIdle
    /\ search = MountedSearchBar
    /\ form = FormIdle

SearchNext ==
    \/ \E value \in SearchTexts : SetSearchTerm(value)
    \/ ClearSearch
    \/ SearchTick
    \/ TimerFires

SpecSearch == SearchInit /\ [][SearchNext]_vars

(***************************************************************************)
(* Properties of the debounce.                                             *)
(***************************************************************************)
\* C19: at every moment at most one debounce timer is pending; each change
\* of the search text cancels the pending timer and starts a new one; a
\* timer invokes onSearch only with the text that stayed unchanged for the
\* whole delay, never with a text that has since been replaced.
C19_OneTimerFiresUnreplacedText ==
    [][ /\ Len(search.timers) <= 1 /\ Len(search'.timers) <= 1
        /\ search'.searchTerm # search.searchTerm =>
               search'.timers = << [text |-> search'.searchTerm, remaining |-> DebounceTicks] >>
        /\ (search'.last.by = "timer" /\ Len(search'.timers) < Len(search.timers)) =>
               /\ search'.last.text = search.searchTerm
               /\ search.unchangedFor >= DebounceTicks
               /\ search'.timers = <<>>
      ]_vars

\* C19 is met by a run in which a pending timer was cancelled by a change
\* of the text and a later timer handed the typed text to onSearch.
C19_Witness ==
    /\ search.pc = "mounted"
    /\ search.cancelled
    /\ search.last = [by |-> "timer", text |-> <<"a", "b">>]
    /\ search.searchTerm = <<"a", "b">>
    /\ search.timers = <<>>

(***************************************************************************)
(* A page whose date range changes: the summary and the list fetch again,  *)
(* and a fetch may fail.                                                   *)
(***************************************************************************)
RefetchPool ==
    { Tx(0, "u1", "expense", 1, 20240310, <<"r">>, <<>>, <<>>),
      Tx(0, "u1", "income", MaxAmount, 20240210, <<"r">>, <<>>, <<>>) }

RefetchRanges == { <<20240301, 20240331>>, <<20240201, 20240331>> }

RefetchInit ==
    /\ budgets = {}
    /\ nextId = 1
    /\ transactions \in Tables(RefetchPool)
    /\ tz = 330
    /\ apiOut = NoCall
    /\ lookupFailed = FALSE
    /\ overlapped = FALSE
    /\ bm = UnmountedTabs
    /\ list = MountedList("u1", NoType, 20240301, 20240331)
    /\ summary = MountedSummary("u1", 20240301, 20240331)
    /\ chart = ChartIdle
    /\ picker = PickerIdle
    /\ search = SearchIdle
    /\ form = FormIdle

RefetchNext ==
    \/ FetchSummary
    \/ FetchTransactions
    \/ \E r \in RefetchRanges : SetSummaryDateRange(r[1], r[2])
    \/ \E r \in RefetchRanges : SetListDateRange(r[1], r[2])

SpecRefetch == RefetchInit /\ [][RefetchNext]_vars

(***************************************************************************)
(* Properties of a failed fetch.                                           *)
(***************************************************************************)
FailedAfterSuccess(c) == c.succeeded /\ c.error /\ ~c.loading

\* C20: when a fetch fails after an earlier fetch of the same component
\* succeeded, the component keeps showing the metrics of the last successful
\* fetch together with an error indicator; they are not reset and not hidden.
C20_FailureKeepsLastMetricsShown ==
    /\ FailedAfterSuccess(summary) =>
           /\ "error" \in SummaryView(summary).parts
           /\ SummaryView(summary).cards = << Totals(summary.fetched) >>
    /\ FailedAfterSuccess(list) =>
           /\ "error" \in ListView(list).parts
           /\ ListView(list).rows =
                  filteredTransactions(list.allTransactions, list.searchQuery, list.tagFilters)

\* C20 for the summary alone, and for the list alone.
C20_SummaryShown ==
    FailedAfterSuccess(summary) =>
        SummaryView(summary).cards = << Totals(summary.fetched) >>

C20_ListShown ==
    (FailedAfterSuccess(list) /\ list.allTransactions # <<>>) =>
        ListView(list).rows = list.filteredTransactions

\* The part of C20 that holds: the failed fetch shows the error and leaves
\* the state of the last successful fetch as it was; only the view hides it.
C20_StateKeptErrorShown ==
    /\ FailedAfterSuccess(summary) =>
           /\ "error" \in SummaryView(summary).parts
           /\ summary.summary = Totals(summary.fetched)
    /\ FailedAfterSuccess(list) =>
           /\ "error" \in ListView(list).parts
           /\ list.transactions = list.allTransactions

(***************************************************************************)
(* Transactions created and edited through the forms.                      *)
(***************************************************************************)
FormTable == << Tx(1, "u1", "investment", 1, 20240305, <<>>, <<"f">>, <<>>) >>

AmountInputs == { EmptyInput, TextInput, NumberInput(-1), NumberInput(0), NumberInput(MaxAmount) }

FormInputs ==
    { FormData(a, s, n, d, ty) :
        a \in AmountInputs, s \in { <<>>, <<"r">> }, n \in { <<>>, <<"f">> },
        d \in { NoDate, 20240312 }, ty \in {"expense", "investment"} }

FormInit ==
    /\ budgets = {}
    /\ transactions = FormTable
    /\ nextId = Len(transactions) + 1
    /\ tz = 330
    /\ apiOut = NoCall
    /\ lookupFailed = FALSE
    /\ overlapped = FALSE
    /\ bm = UnmountedTabs
    /\ list = ListIdle
    /\ summary = SummaryIdle
    /\ chart = ChartIdle
    /\ picker = PickerIdle
    /\ search = SearchIdle
    /\ form = FormIdle

FormNext ==
    \/ \E data \in FormInputs : SubmitTransactionForm("u1", data)
    \/ \E i \in 1..MaxInserts, data \in FormInputs : SubmitTransactionEditModal(i, data)

SpecForm == FormInit /\ [][FormNext]_vars

(***************************************************************************)
(* Properties of the forms.                                                *)
(***************************************************************************)
\* the input the claim wants refused
Malformed(data) ==
    \/ ~(data.amount.kind = "number" /\ data.amount.value > 0)
    \/ data.date = NoDate
    \/ (data.type \in {"expense", "income"} /\ data.source = <<>>)
    \/ (data.type = "investment" /\ data.investment_name = <<>>)

WellFormedRow(r) ==
    /\ r.amount > 0
    /\ r.date # NoDate
    /\ (r.type = "investment" => r.investment_name # <<>>)
    /\ (r.type # "investment" => r.source # <<>>)

\* C21: on the create and edit paths the store is never called with an
\* amount <= 0, an empty date, or without a source (expense, income) or
\* investment name (investment); such input is rejected before any store
\* call and changes nothing, so every stored transaction has amount > 0.
C21_MalformedInputNeverReachesStore ==
    [][ form'.fn # "none" =>
            /\ Malformed(form'.data) =>
                   (~form'.called /\ transactions' = transactions /\ form'.error = "invalid")
            /\ \A i \in 1..Len(transactions') : WellFormedRow(transactions'[i])
      ]_vars

\* C21 is met by a run in which a malformed submission was refused after a
\* well-formed one was stored.
C21_Witness ==
    /\ form.fn = "TransactionEditModal"
    /\ form.data.amount = NumberInput(0)
    /\ ~form.called
    /\ \E i \in 1..Len(transactions) :
           transactions[i].id > 1 /\ transactions[i].amount = MaxAmount

(***************************************************************************)
(* The top-expenses card over up to MaxExpenses expenses, two a day, and   *)
(* one income larger than any of them.                                     *)
(***************************************************************************)
MaxExpenses == 6

TopTables ==
    { [i \in 1..(n + 1) |->
         IF i <= n
         THEN Tx(i, "u1", "expense", CategoryAmount(i, shift), 20240301 + (i \div 2),
                 IF i = 2 THEN <<>> ELSE <<"r">>, <<>>, <<>>)
         ELSE Tx(i, "u1", "income", MaxAmount + 1, 20240302, <<"r">>, <<>>, <<>>)] :
        n \in 0..MaxExpenses, shift \in 0..(MaxAmount - 1) }

TopRanges == { <<NoDate, NoDate>>, <<20240301, 20240331>>, <<20240302, 20240303>> }

TopInit ==
    /\ budgets = {}
    /\ nextId = 1
    /\ transactions \in TopTables
    /\ tz \in {0, 330}
    /\ apiOut = NoCall
    /\ lookupFailed = FALSE
    /\ overlapped = FALSE
    /\ bm = UnmountedTabs
    /\ list = ListIdle
    /\ summary = SummaryIdle
    /\ chart \in { MountedTopExpensesCard("u1", r[1], r[2]) : r \in TopRanges }
    /\ picker = PickerIdle
    /\ search = SearchIdle
    /\ form = FormIdle

TopNext ==
    \/ FetchTopExpenses
    \/ \E r \in TopRanges : SetTopExpensesRange(r[1], r[2])

SpecTop == TopInit /\ [][TopNext]_vars

(***************************************************************************)
(* Properties of the top expenses.                                         *)
(***************************************************************************)
TopFetched == chart.fn = "TopExpensesCard" /\ ~chart.loading /\ ~chart.error

\* the place of the i-th fetched expense among all of them: after every
\* larger one and after every equal one fetched before it
PlaceOf(txs, i) ==
    1 + Cardinality({ j \in 1..Len(txs) :
                        \/ txs[j].amount > txs[i].amount
                        \/ (txs[j].amount = txs[i].amount /\ j < i) })

IsTopOf(top, txs) ==
    /\ Len(top) = Min(TopCount, Len(txs))
    /\ \A i \in 1..Len(txs) :
           PlaceOf(txs, i) <= TopCount =>
               /\ top[PlaceOf(txs, i)].id = txs[i].id
               /\ top[PlaceOf(txs, i)].amount = txs[i].amount

\* C22: the top-expenses list is the min(5, n) expenses of the window with
\* the largest amounts, in descending order of amount, equal amounts in the
\* order of the fetched collection; and computing it leaves the fetched
\* collection unchanged.
C22_TopExpensesLeaveFetchedAlone ==
    TopFetched =>
        /\ IsTopOf(chart.topExpenses, chart.answer)
        /\ \A i \in 1..Len(chart.answer) : chart.answer[i].type = "expense"
        /\ chart.fetched = chart.answer

\* The part of C22 that holds: the list is the stable top five.
C22_TopFive ==
    TopFetched =>
        /\ IsTopOf(chart.topExpenses, chart.answer)
        /\ \A k \in 1..(Len(chart.topExpenses) - 1) :
               chart.topExpenses[k].amount >= chart.topExpenses[k + 1].amount

\* The part of C22 that fails: the fetched collection is as the store
\* returned it.
C22_FetchedUnchanged == TopFetched => chart.fetched = chart.answer

(***************************************************************************)
(* Properties of the heatmap's days.                                       *)
(***************************************************************************)
HeatmapFetched == chart.fn = "ExpenseHeatmap" /\ ~chart.loading /\ ~chart.error

\* the calendar date a bucket shows: format(date, 'yyyy-MM-dd') of its day
BucketDate(bucket) == ISODate(bucket.day * MinutesPerDay)

\* the k-th calendar date from a date on
DateAfter(date, k) == ISODate(DateFromISO(date) + (k * MinutesPerDay))

DaysOfWindow(startDate, endDate) ==
    ((DateFromISO(endDate) - DateFromISO(startDate)) \div MinutesPerDay) + 1

DatedOn(txs, date) == SelectSeq(txs, LAMBDA tr : tr.date = date)

DayBucketsExact(c, off) ==
    LET startDate == HeatmapStartDate(c, off)
        endDate == HeatmapEndDate(c)
    IN  /\ Len(c.heatmapData) = DaysOfWindow(startDate, endDate)
        /\ \A k \in 1..Len(c.heatmapData) :
               LET bucket == c.heatmapData[k]
                   ofDay == DatedOn(c.fetched, BucketDate(bucket))
               IN  /\ BucketDate(bucket) = DateAfter(startDate, k - 1)
                   /\ bucket.amount = SumSeq(Amounts(ofDay))
                   /\ bucket.transactionCount = Len(ofDay)

\* C23: for every window and every viewer timezone offset the heatmap holds
\* exactly one bucket for each calendar day from the window's start date
\* through its end date; each fetched expense is counted in the bucket of
\* its own date and in no other.
C23_OneBucketPerDayOfWindow == HeatmapFetched => DayBucketsExact(chart, tz)

\* The part of C23 that holds: at or east of UTC the buckets are the days of
\* the window, each with the expenses of its date.
C23_EastOfUTC == (HeatmapFetched /\ tz >= 0) => DayBucketsExact(chart, tz)

\* The part of C23 that holds in every timezone: as many buckets as the
\* window has days, and together they count every fetched expense once.
C23_EveryExpenseCountedOnce ==
    HeatmapFetched =>
        /\ Len(chart.heatmapData) =
               DaysOfWindow(HeatmapStartDate(chart, tz), HeatmapEndDate(chart))
        /\ SumSeq([k \in 1..Len(chart.heatmapData) |-> chart.heatmapData[k].transactionCount])
               = Len(chart.fetched)
        /\ SumSeq([k \in 1..Len(chart.heatmapData) |-> chart.heatmapData[k].amount])
               = SumSeq(Amounts(chart.fetched))

(***************************************************************************)
(* Properties of the presets 'Last Month' and 'Last 7 Days'.               *)
(***************************************************************************)
PresetChosen(preset) == PresetApplied /\ picker.last.arg = preset

\* the month before the month of a calendar date, as a month key
MonthBefore(date) ==
    LET y == date \div 10000
        m == (date \div 100) % 100
    IN  IF m = 1 THEN ((y - 1) * 100) + 12 ELSE (y * 100) + (m - 1)

LastDayOfMonth(month) == (month * 100) + DaysInMonth(month \div 100, month % 100)

\* the calendar days from one date through another, both included
DaysThrough(startDate, endDate) ==
    ((DateFromISO(endDate) - DateFromISO(startDate)) \div MinutesPerDay) + 1

\* C24: for every current instant, January included, 'lastMonth' resolves
\* to the first through the last calendar day of the month preceding the
\* current month of the reporting timezone, and the dates sent to the store
\* are exactly those two dates.
C24_LastMonthIsThePrecedingMonth ==
    PresetChosen("lastMonth") =>
        LET month == MonthBefore(ISTDate(picker.now))
        IN  /\ SentStartDate(picker.dateRange, tz) = MonthStartDate(month)
            /\ SentEndDate(picker.dateRange, tz) = LastDayOfMonth(month)

\* The part of C24 that holds: the start date sent, in every timezone
\* checked, and both dates for a viewer at UTC+5:30.
C24_StartOfPrecedingMonth ==
    PresetChosen("lastMonth") =>
        SentStartDate(picker.dateRange, tz) = MonthStartDate(MonthBefore(ISTDate(picker.now)))

C24_ViewerInIST ==
    (PresetChosen("lastMonth") /\ tz = IstOffset) =>
        SentEndDate(picker.dateRange, tz) = LastDayOfMonth(MonthBefore(ISTDate(picker.now)))

\* C25: 'Last 7 Days' resolves to a window of exactly 7 calendar days that
\* ends on the current day of the reporting timezone.
C25_LastSevenDays ==
    PresetChosen("week") =>
        /\ SentEndDate(picker.dateRange, tz) = ISTDate(picker.now)
        /\ DaysThrough(SentStartDate(picker.dateRange, tz),
                       SentEndDate(picker.dateRange, tz)) = 7

\* C25 for the viewer at UTC+5:30, whose end date is the current day: the
\* window still has 8 days.
C25_SevenDaysInIST ==
    (PresetChosen("week") /\ tz = IstOffset) =>
        DaysThrough(SentStartDate(picker.dateRange, tz), SentEndDate(picker.dateRange, tz)) = 7

C25_EightDaysInIST ==
    (PresetChosen("week") /\ tz = IstOffset) =>
        /\ SentEndDate(picker.dateRange, tz) = ISTDate(picker.now)
        /\ DaysThrough(SentStartDate(picker.dateRange, tz),
                       SentEndDate(picker.dateRange, tz)) = 8

(***************************************************************************)
(* The two charts under changes made while fetches are in flight.          *)
(***************************************************************************)
RaceTable ==
    << Tx(1, "u1", "expense", 1, 20240310, <<"r">>, <<>>, <<"x">>),
       Tx(2, "u1", "income", 2, 20240212, <<"r">>, <<>>, <<"y">>) >>

RaceRanges == { <<NoDate, NoDate>>, <<20240201, 20240331>> }

RaceInit ==
    /\ budgets = {}
    /\ nextId = 1
    /\ transactions = RaceTable
    /\ tz = 330
    /\ apiOut = NoCall
    /\ lookupFailed = FALSE
    /\ overlapped = FALSE
    /\ bm = UnmountedTabs
    /\ list = ListIdle
    /\ summary = SummaryIdle
    /\ chart \in { WithFetchesInFlight(MountedBreakdownChart("u1", NoDate, NoDate)),
                   WithFetchesInFlight(MountedTrend("TrendChart", "u1", NoDate, NoDate, FALSE)) }
    /\ picker = PickerIdle
    /\ search = SearchIdle
    /\ form = FormIdle

RaceNext ==
    \/ \E i \in 1..MaxInFlight : FetchReturns(i)
    \/ \E type \in {"income", "expenses"} : ChangeSelectedType(type)
    \/ \E p \in {"3m", "6m"} : ChangePeriod(p)
    \/ \E r \in RaceRanges : ChangeChartRange(r[1], r[2])

SpecRace == RaceInit /\ [][RaceNext]_vars

(***************************************************************************)
(* Properties of overlapping fetches.                                      *)
(***************************************************************************)
\* what the chart draws
Displayed(c) ==
    IF c.fn = "BreakdownChart" THEN [categoryData |-> c.categoryData]
    ELSE [labels |-> c.labels, data |-> c.data]

StrictlyIncreasing(keys) == \A i \in 1..(Len(keys) - 1) : keys[i] < keys[i + 1]

\* C27: every monthly series emits its buckets in strictly increasing
\* year-month order, whatever order the store returns the transactions in.
C27_SeriesInMonthOrder == SeriesShown => StrictlyIncreasing(chart.labels)

\* C27 for IncomeChart alone, whose comparator answers NaN for every pair.
C27_IncomeChartInMonthOrder ==
    (SeriesShown /\ chart.fn = "IncomeChart") => StrictlyIncreasing(chart.labels)

\* C27 for SavingsChart, which counts the months up from the start of the
\* window: the statement the code does meet.
C27_SavingsChartInMonthOrder ==
    (SeriesShown /\ chart.fn = "SavingsChart") => StrictlyIncreasing(chart.labels)

\* IncomeChart showing two months of income, the later month first.
C27_IncomeNewestFirst ==
    /\ SeriesShown /\ chart.fn = "IncomeChart"
    /\ Len(chart.labels) = 2
    /\ chart.labels[1] > chart.labels[2]

(***************************************************************************)
(* The look-back views: ExpensesChart and SavingsChart over transactions   *)
(* of the first month each period reaches back to, and of later months.    *)
(***************************************************************************)
LookBackPool ==
    { Tx(0, "u1", "expense", 1, 20231220, <<"r">>, <<>>, <<>>),
      Tx(0, "u1", "expense", 2, 20240310, <<"r">>, <<>>, <<>>),
      Tx(0, "u1", "income", MaxAmount, 20230920, <<"r">>, <<>>, <<>>),
      Tx(0, "u1", "income", 1, 20230320, <<"r">>, <<>>, <<>>),
      Tx(0, "u1", "income", 2, 20240210, <<"r">>, <<>>, <<>>) }

LookBackInit ==
    /\ budgets = {}
    /\ nextId = 1
    /\ transactions \in Tables(LookBackPool)
    /\ tz \in {0, 330}
    /\ apiOut = NoCall
    /\ lookupFailed = FALSE
    /\ overlapped = FALSE
    /\ bm = UnmountedTabs
    /\ list = ListIdle
    /\ summary = SummaryIdle
    /\ chart \in { MountedExpensesChart("u1"), MountedSavingsChart("u1") }
    /\ picker = PickerIdle
    /\ search = SearchIdle
    /\ form = FormIdle

LookBackNext ==
    \/ ExpensesFetchChartData
    \/ \E v \in {"category", "trend"} : SetViewType(v)
    \/ \E p \in Periods : SetChartPeriod(p)
    \/ SavingsFetchChartData
    \/ \E p \in {"6m", "1y"} : SetSavingsPeriod(p)

SpecLookBack == LookBackInit /\ [][LookBackNext]_vars

(***************************************************************************)
(* Properties of the look-back views.                                      *)
(***************************************************************************)
TrendShown ==
    /\ ~chart.loading /\ ~chart.error
    /\ \/ chart.fn = "SavingsChartOfPeriod" /\ chart.trendData # <<>>
       \/ chart.fn = "ExpensesChart" /\ chart.viewType = "trend" /\ chart.fetchedView = "trend"

\* the entries of the series a transaction is counted in
BucketsOf(tr) ==
    { k \in 1..Len(chart.trendData) : chart.trendData[k].label = MonthKeyOfDate(tr.date) }

TotalFetched ==
    IF chart.fn = "ExpensesChart" THEN SumSeq(Amounts(chart.fetched))
    ELSE Totals(chart.fetched).savings

\* C28: in the look-back trend views (SavingsChart with period 6m/1y,
\* ExpensesChart trend with 3m/6m/1y) every transaction fetched for the
\* period is assigned to exactly one emitted month bucket, so that the sum
\* over all buckets equals the total computed from all fetched transactions.
C28_EveryFetchedInOneBucket ==
    TrendShown =>
        /\ \A i \in 1..Len(chart.fetched) : Cardinality(BucketsOf(chart.fetched[i])) = 1
        /\ SumOver(1..Len(chart.trendData), ValuesOf(chart.trendData)) = TotalFetched

\* No fetched transaction is counted in two buckets, and the months emitted
\* are as many as the period: the part of C28 the code does meet.
C28_AtMostOneBucket ==
    TrendShown =>
        /\ \A i \in 1..Len(chart.fetched) : Cardinality(BucketsOf(chart.fetched[i])) <= 1
        /\ Len(chart.trendData) = monthsToLookBack(chart.period)

\* C28 for the transactions dated in the months emitted.
C28_FetchedOfEmittedMonths ==
    TrendShown =>
        LET emitted == SelectSeq(chart.fetched, LAMBDA tr : BucketsOf(tr) # {})
        IN  SumOver(1..Len(chart.trendData), ValuesOf(chart.trendData)) =
                IF chart.fn = "ExpensesChart" THEN SumSeq(Amounts(emitted))
                ELSE Totals(emitted).savings

\* ExpensesChart, trend of three months: the expense of 20 December is
\* fetched and counted in no bucket.
C28_DecemberLeftOut ==
    /\ TrendShown /\ chart.fn = "ExpensesChart" /\ chart.period = "3m"
    /\ \E i \in 1..Len(chart.fetched) :
         chart.fetched[i].date = 20231220 /\ BucketsOf(chart.fetched[i]) = {}

(***************************************************************************)
(* The pages of a list of three transactions, one or two to a page, under  *)
(* a page that passes tagFilters and under one that does not.              *)
(***************************************************************************)
PagesTable ==
    << Tx(1, "u1", "expense", 1, 20240310, <<"a">>, <<>>, <<"x">>),
       Tx(2, "u1", "expense", 2, 20240309, <<"a", "b">>, <<>>, <<"y">>),
       Tx(3, "u1", "expense", 1, 20240308, <<"b">>, <<>>, <<"x">>) >>

PageSizes == {1, 2}

FetchedList ==
    Rendered([MountedList("u1", NoType, NoDate, NoDate) EXCEPT
                !.allTransactions = PagesTable, !.transactions = PagesTable,
                !.loading = FALSE, !.succeeded = TRUE])

PagesInit ==
    /\ budgets = {}
    /\ nextId = 1
    /\ transactions = PagesTable
    /\ tz = 330
    /\ apiOut = NoCall
    /\ lookupFailed = FALSE
    /\ overlapped = FALSE
    /\ bm = UnmountedTabs
    /\ \E passes \in BOOLEAN, limit \in PageSizes : list = WithPages(FetchedList, passes, limit)
    /\ summary = SummaryIdle
    /\ chart = ChartIdle
    /\ picker = PickerIdle
    /\ search = SearchIdle
    /\ form = FormIdle

PagesNext ==
    \/ Render
    \/ \E page \in 1..Len(PagesTable) : HandlePageChange(page)
    \/ \E n \in PageSizes : HandleItemsPerPageChange(n)
    \/ \E q \in {<<>>, <<"a">>, <<"b">>} : PassSearchQuery(q)
    \/ \E tags \in {<<>>, <<"x">>, <<"y">>} : PassTagFilters(tags)
    \/ ParentRenders

SpecPages == PagesInit /\ [][PagesNext]_vars

(***************************************************************************)
(* Properties of the pages.                                                *)
(***************************************************************************)
\* C29: after handlePageChange(p) with 1 <= p <= totalPages and no later
\* change of the search text, of the contents of the tag filter or of the
\* page size, currentPage stays p on every later render, also when the
\* parent does not pass the tagFilters prop; currentPage is reset to 1 only
\* when searchQuery, tagFilters or itemsPerPage change.
C29_PageStaysAsChosen ==
    [][ /\ (list.stale /\ list.chosenPage # 0) =>
               /\ list'.shownPage = list.chosenPage
               /\ list'.currentPage = list.chosenPage
        /\ (list'.currentPage = 1 /\ list.currentPage # 1) =>
               \/ list.chosenPage = 0
               \/ list'.chosenPage = 1
               \/ list'.itemsPerPage # list.itemsPerPage
      ]_vars

\* C29 under a page that passes tagFilters: the statement the code does meet.
C29_WhenTagFiltersPassed ==
    [][ list.passesTagFilters =>
          /\ (list.stale /\ list.chosenPage # 0) =>
                 /\ list'.shownPage = list.chosenPage
                 /\ list'.currentPage = list.chosenPage
          /\ (list'.currentPage = 1 /\ list.currentPage # 1) =>
                 \/ list.chosenPage = 0
                 \/ list'.chosenPage = 1
                 \/ list'.itemsPerPage # list.itemsPerPage
      ]_vars

\* The second page was chosen, nothing else changed, and the list is back
\* on the first page.
C29_BackOnFirstPage ==
    /\ HasPages(list)
    /\ ~list.passesTagFilters
    /\ ~list.stale
    /\ list.chosenPage = 2
    /\ list.currentPage = 1 /\ list.shownPage = 1
    /\ list.searchQuery = <<>> /\ list.tagFilters = <<>>

\* A page that passes tagFilters keeps the second page through its renders.
C29_SecondPageKept ==
    /\ HasPages(list)
    /\ list.passesTagFilters
    /\ ~list.stale
    /\ list.chosenPage = 2
    /\ list.currentPage = 2 /\ list.shownPage = 2

(***************************************************************************)
(* Deletes from a list of three transactions of the month.                 *)
(***************************************************************************)
DeleteTable ==
    << Tx(1, "u1", "expense", 1, 20240310, <<"a">>, <<>>, <<>>),
       Tx(2, "u1", "income", 2, 20240309, <<"b">>, <<>>, <<>>),
       Tx(3, "u1", "expense", 1, 20240308, <<"a">>, <<>>, <<>>) >>

DeleteInit ==
    /\ budgets = {}
    /\ nextId = 1
    /\ transactions = DeleteTable
    /\ tz = 330
    /\ apiOut = NoCall
    /\ lookupFailed = FALSE
    /\ overlapped = FALSE
    /\ bm = UnmountedTabs
    /\ list = KeyedList(0, <<>>, {})
    /\ summary = SummaryIdle
    /\ chart = ChartIdle
    /\ picker = PickerIdle
    /\ search = SearchIdle
    /\ form = FormIdle

DeleteNext ==
    \/ \E id \in 1..Len(DeleteTable) : HandleDelete(id)
    \/ \E i \in 1..MaxDeletes : StoreDeletes(i)
    \/ \E i \in 1..MaxDeletes : DeleteReturns(i)
    \/ StoreAnswersList
    \/ ListFetchReturns

SpecDelete == DeleteInit /\ [][DeleteNext]_vars

(***************************************************************************)
(* Properties of the deletes.                                              *)
(***************************************************************************)
IdsShown(c) == { RowsShown(c)[k].id : k \in 1..Len(RowsShown(c)) }

IdsDeleted(c) == { d.id : d \in c.deleted }

\* C30: after a deleteTransaction call succeeds the deleted transaction is
\* absent from the displayed list, and after it fails the list is unchanged;
\* when two deletes of different transactions overlap and both succeed,
\* neither is in the displayed list once both have completed.
C30_DeletedRowsAreGone ==
    [][ /\ IdsShown(list') \cap IdsDeleted(list') = {}
        /\ (Len(list'.deleting) < Len(list.deleting) /\ list'.deleted = list.deleted) =>
               /\ ListView(list') = ListView(list)
               /\ transactions' = transactions
      ]_vars

\* C30 is met by two deletes clicked in one list before either returned,
\* both succeeded, and the list drawn again with the one row left.
C30_Witness ==
    /\ IsKeyed(list)
    /\ list.deleting = <<>>
    /\ ~list.loading /\ ~list.error
    /\ \E d, e \in list.deleted : d.id # e.id /\ d.refreshKey = e.refreshKey
    /\ Cardinality(list.deleted) = 2
    /\ Len(RowsShown(list)) = 1
====
